---- MODULE Spec2Model ----
(***************************************************************************)
(* Job analytics dashboard: the useJobAnalytics aggregator, the mock-mode  *)
(* resolver of lib/api.ts and the response normalisation they perform.     *)
(*                                                                         *)
(* JavaScript values are tagged records so that values of different        *)
(* JavaScript types can be compared: [t |-> "undef"], [t |-> "null"],      *)
(* [t |-> "bool", b], [t |-> "num", n], [t |-> "str", s], [t |-> "arr", a],*)
(* [t |-> "obj", f].  Numbers are kept in hundredths (4.2 is 420), text is *)
(* a sequence of lexical tokens, an object is a function from its keys.    *)
(***************************************************************************)
EXTENDS Integers, Sequences, FiniteSets, TLC

\* ------------------------------------------------------------------ bounds

\* Number of changes of useJob's props (jobId, override) in a behaviour.
MaxPropChanges == 2
\* Number of load cycles (mount, identifier change, refresh) in a behaviour.
MaxLoads == 2
\* Number of external writes to the global runtime override window.MOCK_API.
MaxEnvChanges == 1
\* Number of downloadBasicReport calls in a behaviour.
MaxDownloads == 1
\* Length, in tokens, of the text a timeline field may carry.
MaxTextLen == 3
\* The longest score distribution, in buckets.
MaxBuckets == 3
\* The largest candidate_count of a generated bucket.
MaxCount == 3

\* ------------------------------------------------------- JavaScript values

Undef == [t |-> "undef"]
Null == [t |-> "null"]
Bool(b) == [t |-> "bool", b |-> b]
\* A number, given in units: Num(7) is the JavaScript number 7.
Num(n) == [t |-> "num", n |-> 100 * n]
\* A number given in hundredths: Frac(420) is 4.2.
Frac(h) == [t |-> "num", n |-> h]
Str(s) == [t |-> "str", s |-> s]
Arr(a) == [t |-> "arr", a |-> a]
Obj(f) == [t |-> "obj", f |-> f]
EmptyObj == Obj([k \in {} |-> Undef])

\* v == null (loose equality): null or undefined.
IsNullish(v) == v.t \in {"undef", "null"}
\* a, with the `?? b` forgotten.
CoalesceNoDefault(a, b) == a
\* a || b : a falsy number is replaced as well.
CoalesceFalsy(a, b) == IF IsNullish(a) \/ a = [t |-> "num", n |-> 0] THEN b ELSE a
\* a ?? b
Coalesce(a, b) == IF IsNullish(a) THEN b ELSE a
\* o?.k : undefined on a nullish receiver, on a missing key and on a
\* primitive receiver without that property.
Get(o, k) ==
  IF o.t = "obj" /\ k \in DOMAIN o.f THEN o.f[k] ELSE Undef
\* a?.[0] : the first element of an array, undefined when there is none.
First(a) ==
  IF a.t = "arr" /\ Len(a.a) > 0 THEN a.a[1] ELSE Undef

\* ------------------------------------------------------------ JSON.parse

\* The lexical tokens a text is made of; "<" stands for any token that is
\* not JSON (the first character of an HTML error page, say).
Tokens == {"[", "]", ",", "1", "null", "{", "}", "<"}

ParseFail == [ok |-> FALSE, v |-> Undef, i |-> 0]

RECURSIVE ParseValue(_, _), ParseElems(_, _, _)
\* One JSON value starting at token i: a number, null, the empty object or
\* an array of values.
ParseValue(s, i) ==
  IF i > Len(s) THEN ParseFail
  ELSE CASE s[i] = "1" -> [ok |-> TRUE, v |-> Num(1), i |-> i + 1]
         [] s[i] = "null" -> [ok |-> TRUE, v |-> Null, i |-> i + 1]
         [] s[i] = "{" ->
              IF i + 1 <= Len(s) /\ s[i + 1] = "}"
              THEN [ok |-> TRUE, v |-> EmptyObj, i |-> i + 2]
              ELSE ParseFail
         [] s[i] = "[" ->
              IF i + 1 <= Len(s) /\ s[i + 1] = "]"
              THEN [ok |-> TRUE, v |-> Arr(<<>>), i |-> i + 2]
              ELSE ParseElems(s, i + 1, <<>>)
         [] OTHER -> ParseFail
\* The elements of an array after its "[", up to and including its "]".
ParseElems(s, i, acc) ==
  LET r == ParseValue(s, i) IN
  IF ~r.ok \/ r.i > Len(s) THEN ParseFail
  ELSE IF s[r.i] = "]" THEN [ok |-> TRUE, v |-> Arr(Append(acc, r.v)), i |-> r.i + 1]
  ELSE IF s[r.i] = "," THEN ParseElems(s, r.i + 1, Append(acc, r.v))
  ELSE ParseFail

\* JSON.parse(text): the decoded value, or a throw (ok = FALSE) when the
\* text is not exactly one JSON value.
JSONParse(s) ==
  LET r == ParseValue(s, 1) IN
  IF r.ok /\ r.i = Len(s) + 1 THEN [ok |-> TRUE, v |-> r.v]
  ELSE [ok |-> FALSE, v |-> Undef]

\* The texts of at most n tokens.
RECURSIVE TextsUpTo(_)
TextsUpTo(n) ==
  IF n = 0 THEN {<<>>}
  ELSE LET shorter == TextsUpTo(n - 1) IN
       shorter \cup {Append(s, c) : s \in {x \in shorter : Len(x) = n - 1}, c \in Tokens}

\* --------------------------------------------------- the analytics record

imFields ==
  {"avg_interview_rating", "total_interviews", "rated_interviews",
   "avg_duration_minutes", "completed_interviews"}
acFields ==
  {"total_applications", "applied_count", "resume_received_count",
   "interviewing_count", "application_done_count", "applied_to_resume_rate",
   "resume_to_interview_rate", "interview_to_done_rate", "overall_conversion_rate"}
pmFields ==
  {"total_proctored_interviews", "interviews_with_concerns", "total_critical_events",
   "avg_critical_events_per_interview", "percentage_interviews_with_concerns"}
tthFields == {"total_hires", "avg_days_to_hire", "median_days_to_hire"}
icFields == {"completion_rate", "abandonment_rate"}
tlFields == {"interview_date_distribution", "interview_time_distribution"}
ScalarFields == imFields \cup acFields \cup pmFields \cup tthFields \cup icFields

emptyAnalytics ==
  [avg_interview_rating |-> Null,
   total_interviews |-> Num(0),
   rated_interviews |-> Num(0),
   avg_duration_minutes |-> Null,
   completed_interviews |-> Num(0),
   total_applications |-> Num(0),
   applied_count |-> Num(0),
   resume_received_count |-> Num(0),
   interviewing_count |-> Num(0),
   application_done_count |-> Num(0),
   applied_to_resume_rate |-> Num(0),
   resume_to_interview_rate |-> Num(0),
   interview_to_done_rate |-> Num(0),
   overall_conversion_rate |-> Num(0),
   total_proctored_interviews |-> Num(0),
   interviews_with_concerns |-> Num(0),
   total_critical_events |-> Num(0),
   avg_critical_events_per_interview |-> Num(0),
   percentage_interviews_with_concerns |-> Num(0),
   score_distribution |-> Arr(<<>>),
   interview_date_distribution |-> Arr(<<>>),
   interview_time_distribution |-> Arr(<<>>),
   total_hires |-> Num(0),
   avg_days_to_hire |-> Null,
   median_days_to_hire |-> Null,
   completion_rate |-> Num(0),
   abandonment_rate |-> Num(0)]

\* parseMaybeJson without its text branch: text is never decoded.
parseArraysOnly(val, fallback) == IF val.t = "arr" THEN val ELSE fallback
\* parseMaybeJson(val, fallback)
parseMaybeJson(val, fallback) ==
  IF val.t = "str"
  THEN LET parsed == JSONParse(val.s) IN
       IF parsed.ok THEN parsed.v ELSE fallback
  ELSE IF val.t = "arr" THEN val
  ELSE fallback

\* The nine report endpoints, in the order of the Promise.all array.
Endpoints ==
  <<"interview-metrics", "application-conversion", "proctoring-metrics",
    "score-distribution", "time-to-hire", "interview-completion",
    "interview-timeline", "proctoring-events", "section-performance">>
NumEndpoints == Len(Endpoints)
EpIM == 1
EpAC == 2
EpPM == 3
EpSD == 4
EpTTH == 5
EpIC == 6
EpTL == 7
EpPE == 8
EpSP == 9

\* resp?.data?.at(-1) ?? {} : the last row instead of the first.
lastRow(resp) ==
  LET d == Get(resp, "data")
      last == IF d.t = "arr" /\ Len(d.a) > 0 THEN d.a[Len(d.a)] ELSE Undef
  IN IF IsNullish(last) THEN EmptyObj ELSE last
\* resp?.data?.[0] ?? {}
firstRow(resp) == Coalesce(First(Get(resp, "data")), EmptyObj)
\* resp?.data ?? []
dataList(resp) == Coalesce(Get(resp, "data"), Arr(<<>>))

\* { ...emptyAnalytics(), ...im, ...ac, ...pm, ...tth, ...ic } : every key of
\* every first row is copied, a later row overwriting an earlier one.
combinedSpread(r) ==
  LET rows == <<firstRow(r[1]), firstRow(r[2]), firstRow(r[3]), firstRow(r[5]),
                firstRow(r[6])>>
      tl == firstRow(r[7])
      has(i, f) == rows[i].t = "obj" /\ f \in DOMAIN rows[i].f
      from(f) == {i \in 1..5 : has(i, f)}
      last(f) == CHOOSE i \in from(f) : \A j \in from(f) : j <= i
  IN [f \in DOMAIN emptyAnalytics |->
        IF f = "score_distribution" THEN dataList(r[4])
        ELSE IF f \in {"interview_date_distribution", "interview_time_distribution"}
        THEN Coalesce(parseMaybeJson(Coalesce(Get(tl, f), Arr(<<>>)), Arr(<<>>)), Arr(<<>>))
        ELSE IF from(f) = {} THEN emptyAnalytics[f]
        ELSE rows[last(f)].f[f]]

\* The record `combined` that load builds from the nine fulfilled responses
\* r[1..9].
combined(r) ==
  LET im == firstRow(r[EpIM])
      ac == firstRow(r[EpAC])
      pm == firstRow(r[EpPM])
      sdArr == dataList(r[EpSD])
      tth == firstRow(r[EpTTH])
      ic == firstRow(r[EpIC])
      tl == firstRow(r[EpTL])
      dateDistRaw == Coalesce(Get(tl, "interview_date_distribution"), Arr(<<>>))
      timeDistRaw == Coalesce(Get(tl, "interview_time_distribution"), Arr(<<>>))
      dateDist == parseMaybeJson(dateDistRaw, Arr(<<>>))
      timeDist == parseMaybeJson(timeDistRaw, Arr(<<>>))
  IN [emptyAnalytics EXCEPT
       !.avg_interview_rating = Coalesce(Get(im, "avg_interview_rating"), Null),
       !.total_interviews = Coalesce(Get(im, "total_interviews"), Num(0)),
       !.rated_interviews = Coalesce(Get(im, "rated_interviews"), Num(0)),
       !.avg_duration_minutes = Coalesce(Get(im, "avg_duration_minutes"), Null),
       !.completed_interviews = Coalesce(Get(im, "completed_interviews"), Num(0)),
       !.total_applications = Coalesce(Get(ac, "total_applications"), Num(0)),
       !.applied_count = Coalesce(Get(ac, "applied_count"), Num(0)),
       !.resume_received_count = Coalesce(Get(ac, "resume_received_count"), Num(0)),
       !.interviewing_count = Coalesce(Get(ac, "interviewing_count"), Num(0)),
       !.application_done_count = Coalesce(Get(ac, "application_done_count"), Num(0)),
       !.applied_to_resume_rate = Coalesce(Get(ac, "applied_to_resume_rate"), Num(0)),
       !.resume_to_interview_rate = Coalesce(Get(ac, "resume_to_interview_rate"), Num(0)),
       !.interview_to_done_rate = Coalesce(Get(ac, "interview_to_done_rate"), Num(0)),
       !.overall_conversion_rate = Coalesce(Get(ac, "overall_conversion_rate"), Num(0)),
       !.total_proctored_interviews = Coalesce(Get(pm, "total_proctored_interviews"), Num(0)),
       !.interviews_with_concerns = Coalesce(Get(pm, "interviews_with_concerns"), Num(0)),
       !.total_critical_events = Coalesce(Get(pm, "total_critical_events"), Num(0)),
       !.avg_critical_events_per_interview =
           Coalesce(Get(pm, "avg_critical_events_per_interview"), Num(0)),
       !.percentage_interviews_with_concerns =
           Coalesce(Get(pm, "percentage_interviews_with_concerns"), Num(0)),
       !.score_distribution = Coalesce(sdArr, Arr(<<>>)),
       !.interview_date_distribution = Coalesce(dateDist, Arr(<<>>)),
       !.interview_time_distribution = Coalesce(timeDist, Arr(<<>>)),
       !.total_hires = Coalesce(Get(tth, "total_hires"), Num(0)),
       !.avg_days_to_hire = Coalesce(Get(tth, "avg_days_to_hire"), Null),
       !.median_days_to_hire = Coalesce(Get(tth, "median_days_to_hire"), Null),
       !.completion_rate = Coalesce(Get(ic, "completion_rate"), Num(0)),
       !.abandonment_rate = Coalesce(Get(ic, "abandonment_rate"), Num(0))]
\* const proctoringEvents = proctoringEventsResp?.data ?? []
extractProctoringEvents(r) == dataList(r[EpPE])
\* const sectionPerformance = sectionPerformanceResp?.data ?? []
extractSectionPerformance(r) == dataList(r[EpSP])

\* ------------------------------------------------------------ the fixture

\* Math.round((a / b) * 100), and Number((a / b).toFixed(2)) in hundredths.
RoundPct(a, b) == (200 * a + b) \div (2 * b)

Bucket(label, count, pct, avgHundredths) ==
  Obj([k \in {"rating_bucket", "candidate_count", "percentage", "avg_rating_in_bucket"} |->
        CASE k = "rating_bucket" -> Str(<<label>>)
          [] k = "candidate_count" -> Num(count)
          [] k = "percentage" -> Num(pct)
          [] OTHER -> Frac(avgHundredths)])
DateEntry(date, count) ==
  Obj([k \in {"date", "candidate_count"} |->
        IF k = "date" THEN Str(<<date>>) ELSE Num(count)])
HourEntry(hour, count) ==
  Obj([k \in {"hour", "candidate_count"} |->
        IF k = "hour" THEN Num(hour) ELSE Num(count)])
ProctoringEvent(type, count, affected, avgMinutes) ==
  Obj([k \in {"event_type", "event_count", "interviews_affected",
              "avg_time_in_interview_minutes"} |->
        CASE k = "event_type" -> Str(<<type>>)
          [] k = "event_count" -> Num(count)
          [] k = "interviews_affected" -> Num(affected)
          [] OTHER -> avgMinutes])
SectionPerformance(type, key, total, evaluated, rating, minutes) ==
  Obj([k \in {"section_type", "section_key", "total_sections", "evaluated_sections",
              "avg_section_rating", "avg_duration_minutes"} |->
        CASE k = "section_type" -> Str(<<type>>)
          [] k = "section_key" -> Str(<<key>>)
          [] k = "total_sections" -> Num(total)
          [] k = "evaluated_sections" -> Num(evaluated)
          [] k = "avg_section_rating" -> rating
          [] OTHER -> minutes])

dummyAnalytics ==
  [avg_interview_rating |-> Frac(420),
   total_interviews |-> Num(58),
   rated_interviews |-> Num(51),
   avg_duration_minutes |-> Num(47),
   completed_interviews |-> Num(49),
   total_applications |-> Num(128),
   applied_count |-> Num(128),
   resume_received_count |-> Num(92),
   interviewing_count |-> Num(34),
   application_done_count |-> Num(18),
   applied_to_resume_rate |-> Num(RoundPct(92, 128)),
   resume_to_interview_rate |-> Num(RoundPct(34, 92)),
   interview_to_done_rate |-> Num(RoundPct(18, 34)),
   overall_conversion_rate |-> Num(RoundPct(18, 128)),
   total_proctored_interviews |-> Num(40),
   interviews_with_concerns |-> Num(7),
   total_critical_events |-> Num(13),
   avg_critical_events_per_interview |-> Frac(RoundPct(13, 40)),
   percentage_interviews_with_concerns |-> Num(RoundPct(7, 40)),
   score_distribution |-> Arr(<<
      Bucket("0.25", 3, 3, 25),
      Bucket("0.5", 8, 8, 50),
      Bucket("0.75", 1, 1, 75),
      Bucket("1.0", 8, 8, 100),
      Bucket("1.25", 7, 7, 125),
      Bucket("1.5", 4, 4, 150),
      Bucket("1.75", 2, 2, 175),
      Bucket("2.0", 9, 9, 200),
      Bucket("2.25", 6, 6, 225),
      Bucket("2.5", 3, 3, 250),
      Bucket("2.75", 4, 4, 275),
      Bucket("3.0", 4, 4, 300),
      Bucket("3.25", 5, 5, 325),
      Bucket("3.5", 3, 3, 350),
      Bucket("3.75", 5, 5, 375),
      Bucket("4.0", 6, 6, 400),
      Bucket("4.25", 2, 2, 425),
      Bucket("4.5", 4, 4, 450),
      Bucket("4.75", 8, 8, 475),
      Bucket("5.0", 5, 5, 500)>>),
   interview_date_distribution |-> Arr(<<
      DateEntry("2025-08-01", 6), DateEntry("2025-08-02", 9), DateEntry("2025-08-03", 3),
      DateEntry("2025-08-04", 12), DateEntry("2025-08-05", 7)>>),
   interview_time_distribution |-> Arr(<<
      HourEntry(9, 6), HourEntry(10, 10), HourEntry(11, 8), HourEntry(14, 11),
      HourEntry(16, 5)>>),
   total_hires |-> Num(3),
   avg_days_to_hire |-> Num(19),
   median_days_to_hire |-> Num(17),
   completion_rate |-> Num(82),
   abandonment_rate |-> Num(18)]

dummyProctoringEvents ==
  Arr(<<ProctoringEvent("TAB_SWITCH", 12, 7, Num(2)),
        ProctoringEvent("FACE_NOT_DETECTED", 5, 4, Num(1)),
        ProctoringEvent("MULTIPLE_FACES", 4, 2, Num(3))>>)

dummySectionPerformance ==
  Arr(<<SectionPerformance("MCQ", "technical_mcq", 120, 118, Frac(360), Num(18)),
        SectionPerformance("CODING", "coding_round", 82, 80, Frac(330), Num(42)),
        SectionPerformance("SYSTEM_DESIGN", "system_design", 54, 52, Frac(310), Num(50)),
        SectionPerformance("BEHAVIORAL", "behavioral", 96, 94, Frac(400), Num(25))>>)

\* ------------------------------------------------------------ mock flag

\* String.prototype.toLowerCase on the one-token texts the toggle is given.
toLowerCase(s) ==
  [i \in 1..Len(s) |-> IF s[i] \in {"TRUE", "True"} THEN "true" ELSE s[i]]

\* readBool(val), a TLA+ boolean.
readBool(val) ==
  IF val.t = "bool" THEN val.b
  ELSE IF val.t = "str" THEN toLowerCase(val.s) = <<"true">> \/ val.s = <<"1">>
  ELSE IF val.t = "num" THEN val = Num(1)
  ELSE FALSE

\* String(v), for the values a mock toggle is given as.
String(v) ==
  CASE v.t = "str" -> v.s
    [] v.t = "bool" -> IF v.b THEN <<"true">> ELSE <<"false">>
    [] v.t = "null" -> <<"null">>
    [] v.t = "num" -> IF v = Num(1) THEN <<"1">> ELSE <<"0">>
    [] OTHER -> <<"undefined">>

\* lib/env.ts readMockApiEnv(): im is import.meta.env.MOCK_API, pe is
\* process.env.MOCK_API and w is globalThis.MOCK_API.
readMockApiEnv(im, pe, w) ==
  IF im # Undef THEN toLowerCase(String(im)) = <<"true">>
  ELSE IF pe # Undef THEN toLowerCase(String(pe)) = <<"true">>
  ELSE IF w # Undef THEN toLowerCase(String(w)) = <<"true">>
  ELSE TRUE

\* The route GET /api/mock-flag, in a server process whose
\* process.env.MOCK_API is pe: the body it answers with.
GET(pe) ==
  Obj([k \in {"mock"} |-> Bool(toLowerCase(String(pe)) = <<"true">> \/ pe = Str(<<"1">>))])

\* immediateMockFlag asking the window first and the build-time variable
\* last.
immediateMockFlagWindowFirst(im, pe, w, hw) ==
  IF hw /\ ~IsNullish(w) THEN Bool(readBool(w))
  ELSE IF ~IsNullish(pe) THEN Bool(readBool(pe))
  ELSE IF ~IsNullish(im) THEN Bool(readBool(im))
  ELSE Null

\* immediateMockFlag(): null, or the boolean read from the first source that
\* is set.  im is import.meta.env.MOCK_API, pe is process.env.MOCK_API, w is
\* window.MOCK_API and hw says whether a window exists.
immediateMockFlag(im, pe, w, hw) ==
  IF ~IsNullish(im) THEN Bool(readBool(im))
  ELSE IF ~IsNullish(pe) THEN Bool(readBool(pe))
  ELSE IF hw /\ ~IsNullish(w) THEN Bool(readBool(w))
  ELSE Null

\* getIsMockApi(): ret is the value returned, cached and win are the values
\* of mockFlagCached and window.MOCK_API after the call.
getIsMockApi(cached, im, pe, w, hw) ==
  IF cached # Null THEN [ret |-> cached.b, cached |-> cached, win |-> w]
  ELSE LET v == immediateMockFlag(im, pe, w, hw) IN
       IF v # Null
       THEN [ret |-> v.b, cached |-> v, win |-> IF hw THEN v ELSE w]
       ELSE [ret |-> FALSE, cached |-> cached, win |-> w]

\* resolveMockFlag without `if (mockFlagPromise) return mockFlagPromise`:
\* a caller arriving during a pending resolution starts one of its own.
resolveMockFlagNoJoin(cached, promise, im, pe, w, hw) ==
  IF cached # Null
  THEN [kind |-> "value", ret |-> cached.b, cached |-> cached, win |-> w]
  ELSE LET sync == immediateMockFlag(im, pe, w, hw) IN
       IF sync # Null
       THEN [kind |-> "value", ret |-> sync.b, cached |-> sync,
             win |-> IF hw THEN sync ELSE w]
       ELSE IF ~hw
       THEN [kind |-> "value", ret |-> FALSE, cached |-> Bool(FALSE), win |-> w]
       ELSE [kind |-> "fetch", ret |-> FALSE, cached |-> cached, win |-> w]

\* The synchronous part of resolveMockFlag(): kind "value" when the promise
\* returned is already settled with ret, "join" when the pending resolution
\* is returned, "fetch" when GET /api/mock-flag is issued.
resolveMockFlag(cached, promise, im, pe, w, hw) ==
  IF cached # Null
  THEN [kind |-> "value", ret |-> cached.b, cached |-> cached, win |-> w]
  ELSE IF promise
  THEN [kind |-> "join", ret |-> FALSE, cached |-> cached, win |-> w]
  ELSE LET sync == immediateMockFlag(im, pe, w, hw) IN
       IF sync # Null
       THEN [kind |-> "value", ret |-> sync.b, cached |-> sync,
             win |-> IF hw THEN sync ELSE w]
       ELSE IF ~hw
       THEN [kind |-> "value", ret |-> FALSE, cached |-> Bool(FALSE), win |-> w]
       ELSE [kind |-> "fetch", ret |-> FALSE, cached |-> cached, win |-> w]

\* What GET /api/mock-flag can come back with.
FlagResponses ==
  {[kind |-> "networkError", body |-> Undef],
   [kind |-> "nonJson", body |-> Undef],
   [kind |-> "badJson", body |-> Undef],
   [kind |-> "json", body |-> Obj([k \in {"mock"} |-> Bool(TRUE)])],
   [kind |-> "json", body |-> Obj([k \in {"mock"} |-> Bool(FALSE)])],
   [kind |-> "json", body |-> EmptyObj]}

\* A promise chain that falls back to mock mode when the request fails.
flagOfResponseFailsToMock(resp) ==
  IF resp.kind = "json" THEN readBool(Get(resp.body, "mock")) ELSE TRUE
\* The flag the promise chain of resolveMockFlag settles with.
flagOfResponse(resp) ==
  IF resp.kind = "json" THEN readBool(Get(resp.body, "mock")) ELSE FALSE

\* ---------------------------------------------------------- server data

\* { data: d }
Resp(d) == Obj([k \in {"data"} |-> d])
\* A row carrying value v in each of the given fields.
FullRow(fields, v) == Obj([k \in fields |-> v])
TimelineRow(date, time) ==
  Obj([k \in tlFields |-> IF k = "interview_date_distribution" THEN date ELSE time])

JobIds == {"a", "b"}
\* jobId is undefined.
NoJob == "none"

\* What the report endpoints of a job answer when they answer: one row of
\* v per aggregate endpoint, a timeline whose date field is JSON text.
ReportData(v, buckets, events, sections) ==
  [e \in 1..NumEndpoints |->
     CASE e = EpIM -> Resp(Arr(<<FullRow(imFields, v)>>))
       [] e = EpAC -> Resp(Arr(<<FullRow(acFields, v)>>))
       [] e = EpPM -> Resp(Arr(<<FullRow(pmFields, v)>>))
       [] e = EpSD -> Resp(Arr(buckets))
       [] e = EpTTH -> Resp(Arr(<<FullRow(tthFields, v)>>))
       [] e = EpIC -> Resp(Arr(<<FullRow(icFields, v)>>))
       [] e = EpTL -> Resp(Arr(<<TimelineRow(Str(<<"[", "1", "]">>), Arr(<<HourEntry(9, 1)>>))>>))
       [] e = EpPE -> Resp(Arr(events))
       [] OTHER -> Resp(Arr(sections))]

\* What the nine endpoints answer for job j when the server is healthy.
FixedData(j) ==
  IF j = "a"
  THEN ReportData(Num(5), <<Bucket("1.0", 3, 3, 100)>>,
                  <<ProctoringEvent("TAB_SWITCH", 1, 1, Null)>>,
                  <<SectionPerformance("MCQ", "mcq", 2, 1, Null, Null)>>)
  ELSE ReportData(Num(8), <<Bucket("2.0", 8, 8, 200), Bucket("3.0", 1, 1, 300)>>,
                  <<>>, <<>>)
\* The variable server names, per job, the data set its endpoints answer
\* with; dataOf (below) gives the nine response bodies of a data set.
ServerFixed == [j \in JobIds |-> <<"fixed", j>>]

\* ------------------------------------------ the responses, input by input

\* The endpoints that answer one aggregate row wrapped in an array.
RowEndpoints == {EpIM, EpAC, EpPM, EpTTH, EpIC, EpTL}
ListEndpoints == {EpSD, EpPE, EpSP}
\* The scalar fields load reads from the first row of endpoint e.
OwnFields(e) ==
  CASE e = EpIM -> imFields
    [] e = EpAC -> acFields
    [] e = EpPM -> pmFields
    [] e = EpTTH -> tthFields
    [] e = EpIC -> icFields
    [] OTHER -> {}
\* The endpoint load reads the field f from.
OwnEndpoint(f) ==
  CHOOSE e \in RowEndpoints : f \in OwnFields(e) \cup (IF e = EpTL THEN tlFields ELSE {})

\* The shapes a response body takes: the JSON null, an object without a
\* data key, data null, data [], data [null], data [x], data [x, y].
WrapShapes == {"nullBody", "noData", "nullData", "emptyData", "nullRow", "oneRow", "twoRows"}
Wrap(shape, x, y) ==
  CASE shape = "nullBody" -> Null
    [] shape = "noData" -> EmptyObj
    [] shape = "nullData" -> Resp(Null)
    [] shape = "emptyData" -> Resp(Arr(<<>>))
    [] shape = "nullRow" -> Resp(Arr(<<Null>>))
    [] shape = "oneRow" -> Resp(Arr(<<x>>))
    [] OTHER -> Resp(Arr(<<x, y>>))

\* What a field of a row may hold; Undef stands for an absent key.
FieldVals == {Undef, Null, Num(0), Num(7)}
\* The row of endpoint e whose own fields hold bv, and which also holds fv
\* in field ff when e = fe (ff need not be a field of e's own).
PartialRow(e, bv, ff, fe, fv) ==
  LET base == IF bv = Undef THEN {} ELSE OwnFields(e)
      keys == IF e # fe THEN base
              ELSE IF fv = Undef THEN base \ {ff} ELSE base \cup {ff}
  IN Obj([k \in keys |-> IF e = fe /\ k = ff THEN fv ELSE bv])

\* The first and second element of the data array of endpoint e, when its
\* rows hold v.
Element(e, v, second) ==
  CASE e \in RowEndpoints \ {EpTL} -> FullRow(OwnFields(e), IF second THEN Num(9) ELSE v)
    [] e = EpTL ->
         IF second
         THEN TimelineRow(Arr(<<DateEntry("2025-02-02", 5)>>), Arr(<<HourEntry(23, 1)>>))
         ELSE TimelineRow(Arr(<<DateEntry("2025-01-01", 3)>>), Str(<<"[", "1", "]">>))
    [] e = EpSD -> IF second THEN Bucket("2.0", 8, 8, 200) ELSE Bucket("1.0", 3, 3, 100)
    [] e = EpPE ->
         IF second THEN ProctoringEvent("MULTIPLE_FACES", 4, 2, Num(3))
         ELSE ProctoringEvent("TAB_SWITCH", 12, 7, Null)
    [] OTHER ->
         IF second THEN SectionPerformance("CODING", "coding_round", 82, 80, Null, Num(42))
         ELSE SectionPerformance("MCQ", "technical_mcq", 120, 118, Frac(360), Null)

\* Nine responses of shape base, but for the one at focus, of shape fs.
ShapedData(base, focus, fs, v) ==
  [e \in 1..NumEndpoints |->
     Wrap(IF e = focus THEN fs ELSE base, Element(e, v, FALSE), Element(e, v, TRUE))]
ShapedResponses ==
  {<<"shaped", base, focus, fs, v>> :
     base \in WrapShapes, focus \in 1..NumEndpoints, fs \in WrapShapes,
     v \in FieldVals \ {Undef}}

\* Nine one-row responses whose rows hold bv in their own fields, but for
\* the field ff, which the row of endpoint fe holds as fv.
FieldData(bv, ff, fe, fv) ==
  [e \in 1..NumEndpoints |->
     IF e \in RowEndpoints \ {EpTL}
     THEN Wrap("oneRow", PartialRow(e, bv, ff, fe, fv), Null)
     ELSE Wrap("oneRow", Element(e, bv, FALSE), Null)]
FieldResponses ==
  {<<"field", bv, ff, fe, fv>> :
     bv \in FieldVals, ff \in ScalarFields, fe \in RowEndpoints \ {EpTL}, fv \in FieldVals}

\* What a timeline field may hold: nothing, null, a number, an object, an
\* array, or text.
TimelineVals ==
  {Undef, Null, Num(3), EmptyObj, Arr(<<>>), Arr(<<HourEntry(9, 6)>>),
   Arr(<<HourEntry(9, 6), HourEntry(10, 10)>>)}
    \cup {Str(t) : t \in TextsUpTo(MaxTextLen)}
\* The timeline row holding tv in field tf and ov in the other field.
TimelineOf(tf, tv, ov) ==
  LET val(k) == IF k = tf THEN tv ELSE ov
  IN Obj([k \in {x \in tlFields : val(x) # Undef} |-> val(k)])
\* Nine one-row responses whose timeline row holds tv in one field.
TimelineData(tf, tv, ov) ==
  [e \in 1..NumEndpoints |->
     IF e = EpTL THEN Wrap("oneRow", TimelineOf(tf, tv, ov), Null)
     ELSE Wrap("oneRow", Element(e, Num(7), FALSE), Null)]
TimelineResponses ==
  {<<"timeline", tf, tv, ov>> :
     tf \in tlFields, tv \in TimelineVals,
     ov \in {Undef, Arr(<<HourEntry(14, 11)>>), Str(<<"[", "]">>)}}

MergeInputs == ShapedResponses \cup FieldResponses \cup TimelineResponses

\* The nine response bodies of the data set d.
dataOf(d) ==
  CASE d[1] = "fixed" -> FixedData(d[2])
    [] d[1] = "shaped" -> ShapedData(d[2], d[3], d[4], d[5])
    [] d[1] = "field" -> FieldData(d[2], d[3], d[4], d[5])
    [] OTHER -> TimelineData(d[2], d[3], d[4])

\* ------------------------------------------------------------------ state

VARIABLES
  jobId,            \* the jobId prop of useJobAnalytics
  state,            \* the State of useJobAnalytics
  cycles,           \* the load cycles started so far, in order of start
  mockFlagCached,   \* lib/api.ts mockFlagCached: Null or a boolean
  mockFlagPromise,  \* lib/api.ts mockFlagPromise is non-null (pending)
  importMetaEnv,    \* import.meta.env.MOCK_API
  processEnv,       \* process.env.MOCK_API
  windowMockApi,    \* window.MOCK_API
  hasWindow,        \* typeof window !== "undefined"
  server,           \* the data set behind the report endpoints, per job
  net,              \* requests issued so far, per kind
  dlPending,        \* basic-report requests in flight
  dlCalls,          \* downloadBasicReport calls so far
  envChanges,       \* external writes to window.MOCK_API so far
  scoreDistribution, \* the score_distribution the statistics helpers are given
  lastCall,         \* the last call of a helper outside the hook, and its result
  hookCopy,         \* which copy of use-job-analytics.ts the process runs (1 or 2)
  writer,           \* the load cycle whose setState ran last (0: none yet)
  override,         \* the override prop of useJob
  jobHook,          \* the state of useJob: job, loading, error (and whether it is mounted)
  jobRuns,          \* the run() calls of useJob's effect so far, in order of start
  propChanges       \* changes of useJob's props so far

vars ==
  <<jobId, state, cycles, mockFlagCached, mockFlagPromise, importMetaEnv, processEnv,
    windowMockApi, hasWindow, server, net, dlPending, dlCalls, envChanges,
    scoreDistribution, lastCall, hookCopy, writer, override, jobHook, jobRuns,
    propChanges>>

flagVars == <<mockFlagCached, mockFlagPromise, windowMockApi>>
\* What no operation of the hook writes.
envVars ==
  <<importMetaEnv, processEnv, hasWindow, server, scoreDistribution, lastCall, hookCopy>>
dlVars == <<dlPending, dlCalls>>
jobVars == <<override, jobHook, jobRuns, propChanges>>

\* The Error a rejected request of cycle gen raises at position pos.
ErrorOf(gen, pos) == [t |-> "error", gen |-> gen, pos |-> pos]

\* useState<State>({...}) for the given jobId prop.
initialState(j) ==
  [analytics |-> Null,
   proctoringEvents |-> Arr(<<>>),
   sectionPerformance |-> Arr(<<>>),
   isLoading |-> j # NoJob,
   hasError |-> FALSE,
   analyticsError |-> Null]

\* The texts the mock toggle is given in the environment.
EnvTexts == {Str(<<"true">>), Str(<<"false">>)}

\* No helper has been called yet.
NoCall == [fn |-> "none", args |-> <<>>, ret |-> Undef]

InitCommon ==
  /\ cycles = <<>>
  /\ lastCall = NoCall
  /\ mockFlagCached = Null
  /\ mockFlagPromise = FALSE
  /\ net = [flag |-> 0, report |-> 0, download |-> 0, job |-> 0]
  /\ dlPending = 0
  /\ dlCalls = 0
  /\ envChanges = 0
  /\ writer = 0

\* The three useState initialisers, for the props of the first render.
initialJobHook(j, o) ==
  [mounted |-> FALSE,
   job |-> IF o # Null THEN o ELSE Null,
   loading |-> o = Null /\ j # NoJob,
   error |-> Null]

\* useJob is not part of the component under study.
NoUseJob ==
  /\ override = Null
  /\ jobHook = initialJobHook(NoJob, Null)
  /\ jobRuns = <<>>
  /\ propChanges = 0

\* The environments a process starts in: <<import.meta.env.MOCK_API,
\* process.env.MOCK_API, window.MOCK_API, a window exists>>.
StartEnvs ==
  {<<Undef, Undef, Undef, TRUE>>,
   <<Str(<<"true">>), Str(<<"false">>), Undef, TRUE>>,
   <<Undef, Undef, Str(<<"1">>), TRUE>>,
   <<Undef, Undef, Undef, FALSE>>}

Init ==
  /\ InitCommon
  /\ jobId \in {NoJob, "a"}
  /\ state = initialState(jobId)
  /\ \E e \in StartEnvs :
       /\ importMetaEnv = e[1]
       /\ processEnv = e[2]
       /\ windowMockApi = e[3]
       /\ hasWindow = e[4]
  /\ server = ServerFixed
  /\ scoreDistribution = <<>>
  /\ hookCopy = 1
  /\ NoUseJob

\* ------------------------------------------------------------------ useJob

\* The props a job can be handed over in: none, or a Job object.
OverrideJob == [t |-> "job", id |-> "o", src |-> "override"]
Overrides == {Null, OverrideJob}

\* The Job of the mock branch, and the Job the jobs endpoint answers with.
mockJob(j) == [t |-> "job", id |-> j, src |-> "mock"]
jobData(j) == [t |-> "job", id |-> j, src |-> "api"]

\* The Error a rejected job request of run k raises.
JobErrorOf(k) == [t |-> "error", run |-> k]

\* finally { if (!cancelled) setLoading(false) }
finallyOfRun(hook, run) == IF run.cancelled THEN hook ELSE [hook EXCEPT !.loading = FALSE]

\* run() from the point where resolveMockFlag() has answered mock: the mock
\* branch sets the job and finishes, the other branch issues the job request.
\* J is [hook, runs, fetches].
afterJobFlag(J, k, mock, isMockApi) ==
  LET run == J.runs[k] IN
  IF mock \/ isMockApi
  THEN [J EXCEPT !.hook = finallyOfRun(IF run.cancelled THEN @
                                       ELSE [@ EXCEPT !.job = mockJob(run.job)], run),
                 !.runs[k].pc = "done"]
  ELSE [J EXCEPT !.runs[k].pc = "fetch", !.fetches = @ + 1]

\* The runs awaiting the shared flag promise continue in the order they joined.
RECURSIVE resumeJobRuns(_, _, _)
resumeJobRuns(J, k, flag) ==
  IF k > Len(J.runs) THEN J
  ELSE resumeJobRuns(IF J.runs[k].pc = "flag" THEN afterJobFlag(J, k, flag, flag) ELSE J,
                     k + 1, flag)

\* The cleanup of the previous effect: cancelled = true for the run it started.
cleanupRuns(runs) == [k \in 1..Len(runs) |-> [runs[k] EXCEPT !.cancelled = TRUE]]

\* The effect body for props (j, o), after the cleanup of the previous effect.
jobEffect(j, o) ==
  LET runs0 == cleanupRuns(jobRuns) IN
  IF o # Null
  THEN /\ jobHook' = [jobHook EXCEPT !.mounted = TRUE, !.job = o, !.loading = FALSE]
       /\ jobRuns' = runs0
       /\ UNCHANGED <<flagVars, net>>
  ELSE IF j = NoJob
  THEN /\ jobHook' = [jobHook EXCEPT !.mounted = TRUE]
       /\ jobRuns' = runs0
       /\ UNCHANGED <<flagVars, net>>
  ELSE LET r == resolveMockFlag(mockFlagCached, mockFlagPromise, importMetaEnv,
                                processEnv, windowMockApi, hasWindow)
           k == Len(runs0) + 1
           J0 == [hook |-> [jobHook EXCEPT !.mounted = TRUE, !.loading = TRUE, !.error = Null],
                  runs |-> Append(runs0, [job |-> j, pc |-> "flag", cancelled |-> FALSE]),
                  fetches |-> net.job]
           J1 == IF r.kind = "value"
                 THEN afterJobFlag(J0, k, r.ret,
                                   getIsMockApi(r.cached, importMetaEnv, processEnv,
                                                r.win, hasWindow).ret)
                 ELSE J0
       IN /\ jobHook' = J1.hook
          /\ jobRuns' = J1.runs
          /\ mockFlagCached' = r.cached
          /\ windowMockApi' = r.win
          /\ mockFlagPromise' = (mockFlagPromise \/ r.kind = "fetch")
          /\ net' = [net EXCEPT !.job = J1.fetches,
                                !.flag = IF r.kind = "fetch" THEN @ + 1 ELSE @]

jobOtherVars == <<state, writer, cycles, envVars, dlVars, envChanges>>

\* The first render's effect.
JobMount ==
  /\ ~jobHook.mounted
  /\ cycles = <<>>
  /\ jobEffect(jobId, override)
  /\ UNCHANGED <<jobId, override, propChanges, jobOtherVars>>

\* A render with a new jobId or a new override: the dependency array differs,
\* the previous effect is cleaned up and the effect runs again.
JobPropsChange(j, o) ==
  /\ jobHook.mounted
  /\ propChanges < MaxPropChanges
  /\ <<j, o>> # <<jobId, override>>
  /\ jobId' = j
  /\ override' = o
  /\ propChanges' = propChanges + 1
  /\ jobEffect(j, o)
  /\ UNCHANGED jobOtherVars

\* The job request of run k settles: fetchWithCsrf returns the body or throws.
JobRequestSettle(k, ok) ==
  /\ k \in 1..Len(jobRuns)
  /\ jobRuns[k].pc = "fetch"
  /\ LET run == jobRuns[k]
         set == IF run.cancelled THEN jobHook
                ELSE IF ok THEN [jobHook EXCEPT !.job = jobData(run.job)]
                ELSE [jobHook EXCEPT !.error = JobErrorOf(k)]
     IN jobHook' = finallyOfRun(set, run)
  /\ jobRuns' = [jobRuns EXCEPT ![k].pc = "done"]
  /\ UNCHANGED <<jobId, override, propChanges, flagVars, net, jobOtherVars>>

\* ------------------------------------------------- useJobAnalytics.load

\* setState((s) => ({ ...s, isLoading: false })) : the record is kept.
setNoJobKeepsRecord(s) == [s EXCEPT !.isLoading = FALSE]
\* setState((s) => ({ ...s, analytics: null, isLoading: false }))
setNoJob(s) == [s EXCEPT !.analytics = Null, !.isLoading = FALSE]

\* setState((s) => ({ ...s, isLoading: true, hasError: false, analyticsError: null }))
\* A loading frame that lowers hasError but keeps the error object.
setLoadingKeepsError(s) == [s EXCEPT !.isLoading = TRUE, !.hasError = FALSE]
\* A loading frame that also blanks the data shown so far.
setLoadingBlanks(s) ==
  [s EXCEPT !.analytics = Null,
            !.proctoringEvents = Arr(<<>>),
            !.sectionPerformance = Arr(<<>>),
            !.isLoading = TRUE,
            !.hasError = FALSE,
            !.analyticsError = Null]
setLoading(s) == [s EXCEPT !.isLoading = TRUE, !.hasError = FALSE, !.analyticsError = Null]

\* The mock branch storing the fixture record but not the fixture lists.
setMockRecordOnly(s) ==
  [s EXCEPT !.analytics = dummyAnalytics,
            !.isLoading = FALSE,
            !.hasError = FALSE,
            !.analyticsError = Null]
\* The setState of the mock branch.
setMock(s) ==
  [s EXCEPT !.analytics = dummyAnalytics,
            !.proctoringEvents = dummyProctoringEvents,
            !.sectionPerformance = dummySectionPerformance,
            !.isLoading = FALSE,
            !.hasError = FALSE,
            !.analyticsError = Null]

\* The setState after the nine responses r have been combined.
setReady(s, r) ==
  [s EXCEPT !.analytics = combined(r),
            !.proctoringEvents = extractProctoringEvents(r),
            !.sectionPerformance = extractSectionPerformance(r),
            !.isLoading = FALSE,
            !.hasError = FALSE,
            !.analyticsError = Null]

\* A catch block that records the error but keeps the data on display.
setErroredKeepsData(s, e) ==
  [s EXCEPT !.isLoading = FALSE, !.hasError = TRUE, !.analyticsError = e]
\* A catch block that records the error but leaves the loading flag up.
setErroredStillLoading(s, e) ==
  [s EXCEPT !.analytics = Null,
            !.proctoringEvents = Arr(<<>>),
            !.sectionPerformance = Arr(<<>>),
            !.hasError = TRUE,
            !.analyticsError = e]
\* The setState of the catch block.
setErrored(s, e) ==
  [s EXCEPT !.analytics = Null,
            !.proctoringEvents = Arr(<<>>),
            !.sectionPerformance = Arr(<<>>),
            !.isLoading = FALSE,
            !.hasError = TRUE,
            !.analyticsError = e]

\* A load cycle: job is the jobId load closed over, pc is "flag" while it
\* awaits resolveMockFlag, "fetch" while it awaits Promise.all and "done"
\* once load has returned; remaining is the number of its report requests
\* that have not settled; outcome is the branch load returned through
\* ("nojob", "mock", "ok", "error"), "none" until it returns; mock is what
\* `await resolveMockFlag()` gave it ("pending" until then); issued counts
\* the requests the cycle has issued itself.
newCycle(j) ==
  [job |-> j, pc |-> "flag", remaining |-> 0, outcome |-> "none", mock |-> "pending",
   issued |-> [flag |-> 0, report |-> 0]]

\* The part of load after `await resolveMockFlag()` for cycle g, on
\* W = [state, cycles, report, cached, win, writer]: the mock branch, or the nine
\* fetchWithCsrf calls of the real branch.
afterMockFlag(W, g, mock) ==
  LET gi == getIsMockApi(W.cached, importMetaEnv, processEnv, W.win, hasWindow)
      isMock == mock \/ gi.ret
      W0 == [W EXCEPT !.cycles[g].mock = IF mock THEN "true" ELSE "false"]
      W1 == IF mock THEN W0 ELSE [W0 EXCEPT !.cached = gi.cached, !.win = gi.win]
  IN IF isMock
     THEN [W1 EXCEPT !.state = setMock(@),
                     !.writer = g,
                     !.cycles[g] = [@ EXCEPT !.pc = "done", !.outcome = "mock"]]
     ELSE [W1 EXCEPT !.cycles[g] = [@ EXCEPT !.pc = "fetch", !.remaining = NumEndpoints,
                                             !.issued.report = @ + NumEndpoints],
                     !.report = @ + NumEndpoints]

\* The continuations of every cycle awaiting the flag, in order of start.
RECURSIVE resumeFrom(_, _, _)
resumeFrom(W, g, flag) ==
  IF g > Len(W.cycles) THEN W
  ELSE resumeFrom(IF W.cycles[g].pc = "flag" THEN afterMockFlag(W, g, flag) ELSE W,
                  g + 1, flag)

\* load() with jobId j.
load(j) ==
  LET g == Len(cycles) + 1 IN
  /\ Len(cycles) < MaxLoads
  /\ UNCHANGED <<envVars, jobVars, dlVars, envChanges>>
  /\ IF j = NoJob
     THEN /\ state' = setNoJob(state)
          /\ writer' = g
          /\ cycles' = Append(cycles, [newCycle(j) EXCEPT !.pc = "done", !.outcome = "nojob"])
          /\ UNCHANGED <<flagVars, net>>
     ELSE LET r == resolveMockFlag(mockFlagCached, mockFlagPromise, importMetaEnv,
                                   processEnv, windowMockApi, hasWindow)
              asks == IF r.kind = "fetch" THEN 1 ELSE 0
              W0 == [state |-> setLoading(state),
                     cycles |-> Append(cycles, [newCycle(j) EXCEPT !.issued.flag = asks]),
                     report |-> net.report, cached |-> r.cached, win |-> r.win,
                     writer |-> g]
              W1 == IF r.kind = "value" THEN afterMockFlag(W0, g, r.ret) ELSE W0
          IN /\ state' = W1.state
             /\ cycles' = W1.cycles
             /\ writer' = W1.writer
             /\ mockFlagCached' = W1.cached
             /\ windowMockApi' = W1.win
             /\ mockFlagPromise' = (mockFlagPromise \/ r.kind = "fetch")
             /\ net' = [net EXCEPT !.report = W1.report, !.flag = @ + asks]

\* useEffect(() => { load() }, [load]) on mount.
Mount ==
  /\ cycles = <<>>
  /\ load(jobId)
  /\ UNCHANGED jobId

\* The jobId prop changes: load is re-created and the effect runs it.
ChangeJobId(j) ==
  /\ cycles # <<>>
  /\ j # jobId
  /\ jobId' = j
  /\ load(j)

\* refetchAnalytics()
Refresh ==
  /\ cycles # <<>>
  /\ load(jobId)
  /\ UNCHANGED jobId

\* GET /api/mock-flag settles: the promise chain caches the flag, mirrors it
\* to window.MOCK_API and clears mockFlagPromise, then every load awaiting
\* it continues.
MockFlagSettle(resp) ==
  /\ mockFlagPromise
  /\ LET flag == flagOfResponse(resp)
         W0 == [state |-> state, cycles |-> cycles, report |-> net.report,
                cached |-> Bool(flag), win |-> Bool(flag), writer |-> writer]
         W1 == resumeFrom(W0, 1, flag)
         J1 == resumeJobRuns([hook |-> jobHook, runs |-> jobRuns, fetches |-> net.job], 1, flag)
     IN /\ state' = W1.state
        /\ writer' = W1.writer
        /\ cycles' = W1.cycles
        /\ mockFlagCached' = W1.cached
        /\ windowMockApi' = W1.win
        /\ net' = [net EXCEPT !.report = W1.report, !.job = J1.fetches]
        /\ jobHook' = J1.hook
        /\ jobRuns' = J1.runs
  /\ mockFlagPromise' = FALSE
  /\ UNCHANGED <<jobId, override, propChanges, envVars, dlVars, envChanges>>

\* A report request of cycle g fulfils while Promise.all is pending; the
\* last one to do so resolves Promise.all and load stores the merged record.
ReportFulfil(g) ==
  /\ g \in 1..Len(cycles)
  /\ cycles[g].pc = "fetch"
  /\ cycles[g].remaining > 0
  /\ IF cycles[g].remaining = 1
     THEN /\ writer' = g
          /\ cycles' = [cycles EXCEPT ![g] = [@ EXCEPT !.remaining = 0, !.pc = "done",
                                                       !.outcome = "ok"]]
          /\ state' = setReady(state, dataOf(server[cycles[g].job]))
     ELSE /\ cycles' = [cycles EXCEPT ![g].remaining = @ - 1]
          /\ UNCHANGED <<state, writer>>
  /\ UNCHANGED <<jobId, jobVars, flagVars, envVars, net, dlVars, envChanges>>

\* The report request at position i of cycle g rejects while Promise.all is
\* pending: Promise.all rejects with that error and the catch block runs.
ReportReject(g, i) ==
  /\ g \in 1..Len(cycles)
  /\ cycles[g].pc = "fetch"
  /\ cycles[g].remaining > 0
  /\ state' = setErrored(state, ErrorOf(g, i))
  /\ writer' = g
  /\ cycles' = [cycles EXCEPT ![g] = [@ EXCEPT !.remaining = @ - 1, !.pc = "done",
                                               !.outcome = "error"]]
  /\ UNCHANGED <<jobId, jobVars, flagVars, envVars, net, dlVars, envChanges>>

\* A late settlement whose rejection replaces the error on show.
ReportSettleLateOverwrites(g) ==
  /\ g \in 1..Len(cycles)
  /\ cycles[g].pc = "done"
  /\ cycles[g].remaining > 0
  /\ cycles' = [cycles EXCEPT ![g].remaining = @ - 1]
  /\ state' = setErrored(state, ErrorOf(g, cycles[g].remaining))
  /\ UNCHANGED <<jobId, jobVars, writer, flagVars, envVars, net, dlVars, envChanges>>
\* A report request of cycle g settles, either way, after Promise.all has
\* rejected: nobody listens any more.
ReportSettleLate(g) ==
  /\ g \in 1..Len(cycles)
  /\ cycles[g].pc = "done"
  /\ cycles[g].remaining > 0
  /\ cycles' = [cycles EXCEPT ![g].remaining = @ - 1]
  /\ UNCHANGED <<jobId, jobVars, state, writer, flagVars, envVars, net, dlVars, envChanges>>

\* ------------------------------------------------- downloadBasicReport

\* downloadBasicReport(), called by a consumer of the mounted hook: returns
\* at once without a jobId or in mock mode, else fetchWithCsrf issues GET
\* basic-report.
DownloadBasicReport ==
  /\ cycles # <<>>
  /\ dlCalls < MaxDownloads
  /\ dlCalls' = dlCalls + 1
  /\ IF jobId = NoJob
     THEN UNCHANGED <<flagVars, net, dlPending>>
     ELSE LET g1 == getIsMockApi(mockFlagCached, importMetaEnv, processEnv,
                                 windowMockApi, hasWindow)
          IN /\ mockFlagCached' = g1.cached
             /\ windowMockApi' = g1.win
             /\ UNCHANGED mockFlagPromise
             /\ IF g1.ret
                THEN UNCHANGED <<net, dlPending>>
                ELSE /\ net' = [net EXCEPT !.download = @ + 1]
                     /\ dlPending' = dlPending + 1
  /\ UNCHANGED <<jobId, jobVars, state, writer, cycles, envVars, envChanges>>

\* The basic-report request settles and downloadBasicReport returns to its
\* caller: the blob is saved, or the error is caught and logged (first
\* copy of the hook) or thrown on (second copy, which has no try/catch).
DownloadSettle(ok) ==
  /\ dlPending > 0
  /\ dlPending' = dlPending - 1
  /\ lastCall' = [fn |-> "downloadBasicReport", args |-> <<Bool(ok)>>,
                  ret |-> IF ok \/ hookCopy = 1 THEN Str(<<"resolved">>)
                          ELSE Str(<<"rejected">>)]
  /\ UNCHANGED <<jobId, jobVars, state, writer, cycles, flagVars, importMetaEnv, processEnv,
                 hasWindow, server, scoreDistribution, hookCopy, net, dlCalls, envChanges>>

\* ------------------------------------------------- a failing mock-flag route

\* The ways GET /api/mock-flag fails: the request rejects, the content type
\* is not JSON, the body does not parse.
FailedFlagResponses == {resp \in FlagResponses : resp.kind # "json"}

NextFlagFails ==
  \/ Mount
  \/ \E j \in JobIds \cup {NoJob} : ChangeJobId(j)
  \/ Refresh
  \/ \E resp \in FailedFlagResponses : MockFlagSettle(resp)
  \/ \E g \in 1..MaxLoads : ReportFulfil(g)

\* The aggregator where the mock-flag request always fails and the report
\* requests always succeed.
SpecFlagFails == Init /\ [][NextFlagFails]_vars

\* ------------------------------------------------- JobAnalyticsPage

\* A page that shows an error screen instead of the dashboard when the
\* aggregator has an error.
JobAnalyticsPageBlocksOnError(s, jobLoading) ==
  IF s.isLoading \/ jobLoading THEN [view |-> "loader"]
  ELSE IF s.hasError THEN [view |-> "error"]
  ELSE [view |-> "dashboard",
        data |-> IF s.analytics = Null THEN dummyAnalytics ELSE s.analytics,
        sections |-> IF s.sectionPerformance.t = "arr" /\ Len(s.sectionPerformance.a) > 0
                     THEN s.sectionPerformance ELSE dummySectionPerformance]
\* What JobAnalyticsPage renders from the aggregator state s and useJob's
\* loading flag: the loader, or the dashboard over data and sections.
JobAnalyticsPage(s, jobLoading) ==
  IF s.isLoading \/ jobLoading THEN [view |-> "loader"]
  ELSE [view |-> "dashboard",
        data |-> IF s.analytics = Null THEN dummyAnalytics ELSE s.analytics,
        sections |-> IF s.sectionPerformance.t = "arr" /\ Len(s.sectionPerformance.a) > 0
                     THEN s.sectionPerformance ELSE dummySectionPerformance]

\* ------------------------------------------------------------ environment

\* The host page writes the global runtime override window.MOCK_API.
SetWindowMockApi(v) ==
  /\ hasWindow
  /\ envChanges < MaxEnvChanges
  /\ envChanges' = envChanges + 1
  /\ windowMockApi' = v
  /\ UNCHANGED <<jobId, jobVars, state, writer, cycles, mockFlagCached, mockFlagPromise, envVars, net,
                 dlVars>>

\* Some module calls readMockApiEnv().
ReadMockApiEnv ==
  /\ lastCall.fn # "readMockApiEnv"
  /\ lastCall' = [fn |-> "readMockApiEnv",
                  args |-> <<importMetaEnv, processEnv, windowMockApi>>,
                  ret |-> Bool(readMockApiEnv(importMetaEnv, processEnv, windowMockApi))]
  /\ UNCHANGED <<jobId, jobVars, state, writer, cycles, flagVars, importMetaEnv, processEnv, hasWindow,
                 server, scoreDistribution, hookCopy, net, dlVars, envChanges>>

\* The route GET /api/mock-flag is called in a process with this
\* process.env.MOCK_API.
RouteGET ==
  /\ lastCall.fn # "GET"
  /\ lastCall' = [fn |-> "GET", args |-> <<processEnv>>, ret |-> GET(processEnv)]
  /\ UNCHANGED <<jobId, jobVars, state, writer, cycles, flagVars, importMetaEnv, processEnv, hasWindow,
                 server, scoreDistribution, hookCopy, net, dlVars, envChanges>>

\* ------------------------------------------------- requests that settle

\* A report request of cycle g settles while Promise.all is pending: the
\* steps of ReportFulfil(g) and ReportReject(g, i), told by what they do to
\* the cycle.
ReportSettles(g) ==
  /\ g \in 1..Len(cycles)
  /\ cycles[g].pc = "fetch"
  /\ cycles[g].remaining > 0
  /\ cycles' \in
       {[cycles EXCEPT ![g] = [@ EXCEPT !.remaining = @ - 1, !.pc = "done",
                                        !.outcome = "error"]],
        IF cycles[g].remaining = 1
        THEN [cycles EXCEPT ![g] = [@ EXCEPT !.remaining = 0, !.pc = "done",
                                             !.outcome = "ok"]]
        ELSE [cycles EXCEPT ![g].remaining = @ - 1]}

\* Every request issued settles: the mock-flag request while it is pending,
\* and the report requests of every cycle waiting on Promise.all.
RequestsSettle ==
  /\ WF_vars(\E resp \in FlagResponses : MockFlagSettle(resp))
  /\ \A g \in 1..MaxLoads : WF_cycles(ReportSettles(g))

Next ==
  \/ Mount
  \/ \E j \in JobIds \cup {NoJob} : ChangeJobId(j)
  \/ Refresh
  \/ \E resp \in FlagResponses : MockFlagSettle(resp)
  \/ \E g \in 1..MaxLoads : ReportFulfil(g)
  \/ \E g \in 1..MaxLoads, i \in 1..NumEndpoints : ReportReject(g, i)
  \/ \E g \in 1..MaxLoads : ReportSettleLate(g)

\* The aggregator alone: load cycles and the requests they issue.
Spec == Init /\ [][Next]_vars

\* A page mounted with an identifier.
InitLive ==
  /\ InitCommon
  /\ jobId = "a"
  /\ state = initialState(jobId)
  /\ \E e \in StartEnvs :
       /\ importMetaEnv = e[1]
       /\ processEnv = e[2]
       /\ windowMockApi = e[3]
       /\ hasWindow = e[4]
  /\ server = ServerFixed
  /\ scoreDistribution = <<>>
  /\ hookCopy = 1
  /\ NoUseJob

\* The steps of Next, a rejection being that of the first or of the last
\* of the nine requests.
NextLive ==
  \/ Mount
  \/ \E j \in {"a", NoJob} : ChangeJobId(j)
  \/ Refresh
  \/ \E resp \in FlagResponses : MockFlagSettle(resp)
  \/ \E g \in 1..MaxLoads : ReportFulfil(g)
  \/ \E g \in 1..MaxLoads, i \in {1, NumEndpoints} : ReportReject(g, i)
  \/ \E g \in 1..MaxLoads : ReportSettleLate(g)

\* The aggregator when every request it issues eventually settles.
SpecLive == InitLive /\ [][NextLive]_vars /\ RequestsSettle

NextEnv ==
  \/ Next
  \/ DownloadBasicReport
  \/ \E ok \in BOOLEAN : DownloadSettle(ok)
  \/ \E v \in EnvTexts : SetWindowMockApi(v)

\* The aggregator together with report downloads and a host page that
\* writes the global runtime override.
SpecEnv == Init /\ [][NextEnv]_vars

\* ------------------------------------------------- the download on its own

\* One job, either copy of the hook.
InitDownload ==
  /\ InitCommon
  /\ jobId = "a"
  /\ state = initialState(jobId)
  /\ \E e \in StartEnvs :
       /\ importMetaEnv = e[1]
       /\ processEnv = e[2]
       /\ windowMockApi = e[3]
       /\ hasWindow = e[4]
  /\ server = ServerFixed
  /\ scoreDistribution = <<>>
  /\ hookCopy \in {1, 2}
  /\ NoUseJob

NextDownload ==
  \/ Mount
  \/ \E resp \in FlagResponses : MockFlagSettle(resp)
  \/ \E g \in 1..MaxLoads : ReportFulfil(g)
  \/ \E g \in 1..MaxLoads, i \in 1..NumEndpoints : ReportReject(g, i)
  \/ DownloadBasicReport
  \/ \E ok \in BOOLEAN : DownloadSettle(ok)

\* A load and report downloads beside it, for both copies of the hook.
SpecDownload == InitDownload /\ [][NextDownload]_vars

\* ------------------------------------------------- fetchWithCsrf

\* What fetch(input, init) settles with: a Response, or a network error.
\* contentType is the content-type header as a sequence of parts (<<>> when
\* the header is absent); readable is FALSE when reading the body fails.
HttpResponse(status, contentType, body, readable) ==
  [t |-> "response", status |-> status, contentType |-> contentType, body |-> body,
   readable |-> readable]
NetworkError == [t |-> "networkError"]

\* Response.ok
IsOk(resp) == resp.status >= 200 /\ resp.status <= 299
\* resp.text().catch(() => "")
textOrEmpty(resp) == IF resp.readable THEN resp.body ELSE <<>>
\* ct.includes("application/json")
includesJson(ct) == \E k \in DOMAIN ct : ct[k] = "application/json"
\* preview.slice(0, 120)
slice120(s) == SubSeq(s, 1, IF Len(s) < 120 THEN Len(s) ELSE 120)

Throw(message) == [kind |-> "throw", message |-> message]
Return(what, value) == [kind |-> "return", what |-> what, value |-> value]
StatusMessage(status) == <<"Request failed with status ", status>>

\* The part of fetchWithCsrf after `await fetch`: blob or JSON handling of
\* a response that passed the status check.
handleBody(resp, asBlob) ==
  IF asBlob
  THEN IF resp.readable THEN Return("blob", resp.body) ELSE Throw(<<"TypeError">>)
  ELSE IF ~includesJson(resp.contentType)
  THEN LET preview == textOrEmpty(resp)
       IN Throw(<<"Non-JSON response from server">>
                  \o (IF preview # <<>> THEN <<": ">> \o slice120(preview) \o <<"...">>
                      ELSE <<>>))
  ELSE LET parsed == JSONParse(resp.body)
       IN IF resp.readable /\ parsed.ok THEN Return("json", parsed.v)
          ELSE Throw(<<"SyntaxError">>)

\* fetchWithCsrf with the blob branch placed before the status check.
fetchWithCsrfBlobFirst(mock, asBlob, outcome) ==
  IF outcome.t = "networkError" THEN Throw(<<"TypeError">>)
  ELSE IF mock THEN Return("response", outcome)
  ELSE IF asBlob THEN handleBody(outcome, asBlob)
  ELSE IF ~IsOk(outcome)
  THEN LET text == textOrEmpty(outcome)
       IN Throw(IF text # <<>> THEN text ELSE StatusMessage(outcome.status))
  ELSE handleBody(outcome, asBlob)
\* fetchWithCsrf(input, init): mock is what getIsMockApi() returns, asBlob
\* is init.asBlob, outcome is what fetch settles with.
fetchWithCsrf(mock, asBlob, outcome) ==
  IF outcome.t = "networkError" THEN Throw(<<"TypeError">>)
  ELSE IF mock THEN Return("response", outcome)
  ELSE IF ~IsOk(outcome)
  THEN LET text == textOrEmpty(outcome)
       IN Throw(IF text # <<>> THEN text ELSE StatusMessage(outcome.status))
  ELSE handleBody(outcome, asBlob)

Statuses == {200, 204, 304, 404, 500}
ContentTypes ==
  {<<>>, <<"application/json">>, <<"application/json", "; charset=utf-8">>, <<"text/html">>}
Bodies == {<<>>, <<"<">>, <<"[", "1", "]">>}
FetchOutcomes ==
  {NetworkError} \cup
  {HttpResponse(s, ct, b, r) : s \in Statuses, ct \in ContentTypes, b \in Bodies,
                               r \in BOOLEAN}

\* A call of fetchWithCsrf and the settlement of the promise it returns.
FetchWithCsrf(asBlob, outcome) ==
  LET gi == getIsMockApi(mockFlagCached, importMetaEnv, processEnv, windowMockApi, hasWindow)
  IN /\ lastCall' = [fn |-> "fetchWithCsrf", args |-> <<gi.ret, asBlob, outcome>>,
                     ret |-> fetchWithCsrf(gi.ret, asBlob, outcome)]
     /\ mockFlagCached' = gi.cached
     /\ windowMockApi' = gi.win
     /\ UNCHANGED <<jobId, jobVars, state, writer, cycles, mockFlagPromise, importMetaEnv, processEnv,
                    hasWindow, server, scoreDistribution, hookCopy, net, dlVars, envChanges>>

InitFetch ==
  /\ InitCommon
  /\ jobId = "a"
  /\ state = initialState(jobId)
  /\ \E e \in StartEnvs :
       /\ importMetaEnv = e[1]
       /\ processEnv = e[2]
       /\ windowMockApi = e[3]
       /\ hasWindow = e[4]
  /\ server = ServerFixed
  /\ scoreDistribution = <<>>
  /\ hookCopy = 1
  /\ NoUseJob

NextFetch == \E asBlob \in BOOLEAN, outcome \in FetchOutcomes : FetchWithCsrf(asBlob, outcome)

\* Calls of fetchWithCsrf in every starting environment.
SpecFetch == InitFetch /\ [][NextFetch]_vars

\* ------------------------------------------------- score statistics

\* A bucket of score_distribution: candidate_count is a whole number,
\* avg_rating_in_bucket a number in hundredths (200 is the rating 2).
ScoreBucket(count, rating) == [candidate_count |-> count, avg_rating_in_bucket |-> rating]

\* `v || d` on a number: 0 is falsy.
OrDefault(v, d) == IF v = 0 THEN d ELSE v

\* scoreDistribution.reduce((max, bucket) => ...) without an initial value.
RECURSIVE modeReduce(_, _, _)
modeReduce(sd, i, max) ==
  IF i > Len(sd) THEN max
  ELSE modeReduce(sd, i + 1,
                  IF sd[i].candidate_count > max.candidate_count THEN sd[i] ELSE max)

\* calculateMode of the score-distribution table.
calculateMode(sd) ==
  IF Len(sd) = 0 THEN 250
  ELSE OrDefault(modeReduce(sd, 2, sd[1]).avg_rating_in_bucket, 250)

\* reduce((sum, bucket) => sum + bucket.candidate_count, 0), over sd[i..].
RECURSIVE totalCandidates(_, _)
totalCandidates(sd, i) ==
  IF i > Len(sd) THEN 0 ELSE sd[i].candidate_count + totalCandidates(sd, i + 1)

\* A walk that stops only once the running count exceeds the midpoint.
RECURSIVE medianWalkStrict(_, _, _, _)
medianWalkStrict(sd, i, runningCount, total) ==
  IF i > Len(sd) THEN 250
  ELSE LET r == runningCount + sd[i].candidate_count
       IN IF 2 * r > total THEN sd[i].avg_rating_in_bucket
          ELSE medianWalkStrict(sd, i + 1, r, total)
\* The for loop of calculateMedian: runningCount >= totalCandidates / 2.
RECURSIVE medianWalk(_, _, _, _)
medianWalk(sd, i, runningCount, total) ==
  IF i > Len(sd) THEN 250
  ELSE LET r == runningCount + sd[i].candidate_count
       IN IF 2 * r >= total THEN sd[i].avg_rating_in_bucket
          ELSE medianWalk(sd, i + 1, r, total)

\* calculateMedian of the score-distribution table.
calculateMedian(sd) ==
  IF Len(sd) = 0 THEN 250 ELSE medianWalk(sd, 1, 0, totalCandidates(sd, 1))

\* The forEach of calculateScoreSummary: each bucket's rating pushed
\* candidate_count times.
RECURSIVE allScores(_, _)
allScores(sd, i) ==
  IF i > Len(sd) THEN <<>>
  ELSE [k \in 1..sd[i].candidate_count |-> sd[i].avg_rating_in_bucket]
         \o allScores(sd, i + 1)

\* x put into the ascending sequence s, after the elements equal to it.
RECURSIVE insertSorted(_, _)
insertSorted(s, x) ==
  IF s = <<>> THEN <<x>>
  ELSE IF x < Head(s) THEN <<x>> \o s
  ELSE <<Head(s)>> \o insertSorted(Tail(s), x)
\* The scores left in the order they were pushed.
unsorted(s) == s
\* allScores.sort((a, b) => a - b)
RECURSIVE sortAscending(_)
sortAscending(s) ==
  IF s = <<>> THEN <<>>
  ELSE insertSorted(sortAscending(SubSeq(s, 1, Len(s) - 1)), s[Len(s)])

\* A summary that takes the lower of the two middle scores.
calculateScoreSummaryLowerMiddle(sd) ==
  IF Len(sd) = 0 THEN [total |-> 0, median |-> 0]
  ELSE LET sorted == sortAscending(allScores(sd, 1))
           n == Len(sorted)
       IN [total |-> totalCandidates(sd, 1),
           median |-> IF n > 0 THEN sorted[(n + 1) \div 2] ELSE 0]
\* calculateScoreSummary of the page, on data.score_distribution || [].
calculateScoreSummary(sd) ==
  IF Len(sd) = 0 THEN [total |-> 0, median |-> 0]
  ELSE LET sorted == sortAscending(allScores(sd, 1))
           n == Len(sorted)
       IN [total |-> totalCandidates(sd, 1),
           median |-> IF n > 0
                      THEN IF n % 2 = 0
                           THEN (sorted[n \div 2] + sorted[n \div 2 + 1]) \div 2
                           ELSE sorted[n \div 2 + 1]
                      ELSE 0]

\* The ratings of generated buckets, in hundredths.
Ratings == {0, 100, 200, 300}
ScoreBuckets == {ScoreBucket(c, r) : c \in 0..MaxCount, r \in Ratings}
RECURSIVE SeqsUpTo(_, _)
SeqsUpTo(S, n) ==
  IF n = 0 THEN {<<>>}
  ELSE LET shorter == SeqsUpTo(S, n - 1)
       IN shorter \cup {Append(s, x) : s \in {t \in shorter : Len(t) = n - 1}, x \in S}
\* The distribution 3 at rating 1, 8 at rating 2, 1 at rating 3.
ExampleDistribution == <<ScoreBucket(3, 100), ScoreBucket(8, 200), ScoreBucket(1, 300)>>
Distributions == SeqsUpTo(ScoreBuckets, MaxBuckets) \cup {ExampleDistribution}

CalculateMode ==
  /\ lastCall.fn # "calculateMode"
  /\ lastCall' = [fn |-> "calculateMode", args |-> <<scoreDistribution>>,
                  ret |-> Frac(calculateMode(scoreDistribution))]
  /\ UNCHANGED <<jobId, jobVars, state, writer, cycles, flagVars, importMetaEnv, processEnv,
                 hasWindow, server, scoreDistribution, hookCopy, net, dlVars, envChanges>>

CalculateMedian ==
  /\ lastCall.fn # "calculateMedian"
  /\ lastCall' = [fn |-> "calculateMedian", args |-> <<scoreDistribution>>,
                  ret |-> Frac(calculateMedian(scoreDistribution))]
  /\ UNCHANGED <<jobId, jobVars, state, writer, cycles, flagVars, importMetaEnv, processEnv,
                 hasWindow, server, scoreDistribution, hookCopy, net, dlVars, envChanges>>

CalculateScoreSummary ==
  /\ lastCall.fn # "calculateScoreSummary"
  /\ lastCall' = [fn |-> "calculateScoreSummary", args |-> <<scoreDistribution>>,
                  ret |-> calculateScoreSummary(scoreDistribution)]
  /\ UNCHANGED <<jobId, jobVars, state, writer, cycles, flagVars, importMetaEnv, processEnv,
                 hasWindow, server, scoreDistribution, hookCopy, net, dlVars, envChanges>>

\* The page rendered over the distribution: calculateScoreSummary in the
\* page and calculateMedian in the ScoreDistributionTable it renders.
RenderStatistics ==
  /\ lastCall.fn # "renderStatistics"
  /\ lastCall' = [fn |-> "renderStatistics", args |-> <<scoreDistribution>>,
                  ret |-> [table |-> calculateMedian(scoreDistribution),
                           summary |-> calculateScoreSummary(scoreDistribution).median]]
  /\ UNCHANGED <<jobId, jobVars, state, writer, cycles, flagVars, importMetaEnv, processEnv,
                 hasWindow, server, scoreDistribution, hookCopy, net, dlVars, envChanges>>

\* The page rendered over one score distribution.
InitStats ==
  /\ InitCommon
  /\ jobId = "a"
  /\ state = initialState(jobId)
  /\ importMetaEnv = Undef
  /\ processEnv = Undef
  /\ windowMockApi = Undef
  /\ hasWindow = TRUE
  /\ server = ServerFixed
  /\ scoreDistribution \in Distributions
  /\ hookCopy = 1
  /\ NoUseJob

NextStats == CalculateMode \/ CalculateMedian \/ CalculateScoreSummary \/ RenderStatistics

\* The three statistics of the page, each over every generated distribution.
SpecStats == InitStats /\ [][NextStats]_vars

\* ------------------------------------------------- the mock toggle on its own

\* What a source of the mock toggle may hold.
SourceVals ==
  {Undef, Null, Str(<<"true">>), Str(<<"false">>), Str(<<"1">>), Str(<<"0">>),
   Str(<<"TRUE">>), Bool(TRUE), Bool(FALSE)}

\* One job, with any values in the three sources of the mock toggle, with
\* and without a window.
InitFlag ==
  /\ InitCommon
  /\ jobId = "a"
  /\ state = initialState(jobId)
  /\ importMetaEnv \in SourceVals
  /\ processEnv \in SourceVals
  /\ windowMockApi \in SourceVals
  /\ hasWindow \in BOOLEAN
  /\ server = ServerFixed
  /\ scoreDistribution = <<>>
  /\ hookCopy = 1
  /\ NoUseJob

NextFlag ==
  \/ Mount
  \/ Refresh
  \/ \E resp \in FlagResponses : MockFlagSettle(resp)
  \/ DownloadBasicReport
  \/ \E ok \in BOOLEAN : DownloadSettle(ok)
  \/ ReadMockApiEnv
  \/ RouteGET

\* Every reader of the mock toggle, over every setting of its sources.
SpecFlag == InitFlag /\ [][NextFlag]_vars

\* ------------------------------------------------- the merge on its own

\* One job in real mode (process.env.MOCK_API is "false"), whose report
\* endpoints answer any of the inputs above.
InitMerge ==
  /\ InitCommon
  /\ jobId = "a"
  /\ state = initialState(jobId)
  /\ importMetaEnv = Undef
  /\ processEnv = Str(<<"false">>)
  /\ windowMockApi = Undef
  /\ hasWindow = TRUE
  /\ \E r \in MergeInputs : server = [j \in JobIds |-> r]
  /\ scoreDistribution = <<>>
  /\ hookCopy = 1
  /\ NoUseJob

NextMerge ==
  \/ Mount
  \/ \E g \in 1..MaxLoads : ReportFulfil(g)

\* The load of one job all of whose nine requests fulfil.
SpecMerge == InitMerge /\ [][NextMerge]_vars

\* ------------------------------------------------- useJob on its own

\* The page's first render hands useJob any jobId and any override.
InitJob ==
  /\ InitCommon
  /\ jobId \in JobIds \cup {NoJob}
  /\ override \in Overrides
  /\ jobHook = initialJobHook(jobId, override)
  /\ jobRuns = <<>>
  /\ propChanges = 0
  /\ state = initialState(NoJob)
  /\ \E e \in StartEnvs :
       /\ importMetaEnv = e[1]
       /\ processEnv = e[2]
       /\ windowMockApi = e[3]
       /\ hasWindow = e[4]
  /\ server = ServerFixed
  /\ scoreDistribution = <<>>
  /\ hookCopy = 1

NextJob ==
  \/ JobMount
  \/ \E j \in JobIds \cup {NoJob}, o \in Overrides : JobPropsChange(j, o)
  \/ \E resp \in FlagResponses : MockFlagSettle(resp)
  \/ \E k \in 1..(MaxPropChanges + 1), ok \in BOOLEAN : JobRequestSettle(k, ok)

\* Every request useJob issues eventually settles, and the first effect runs.
JobRequestsSettle ==
  /\ WF_vars(JobMount)
  /\ WF_vars(\E resp \in FlagResponses : MockFlagSettle(resp))
  /\ \A k \in 1..(MaxPropChanges + 1) : WF_vars(\E ok \in BOOLEAN : JobRequestSettle(k, ok))

SpecJob == InitJob /\ [][NextJob]_vars /\ JobRequestsSettle

\* ------------------------------------------------------------ properties

Gens == DOMAIN cycles
\* Every load started so far has returned.
AllDone == \A g \in Gens : cycles[g].pc = "done"
RECURSIVE SumIssued(_, _)
SumIssued(kind, n) ==
  IF n = 0 THEN 0 ELSE cycles[n].issued[kind] + SumIssued(kind, n - 1)

Errored ==
  /\ state.hasError
  /\ state.analytics = Null
  /\ state.proctoringEvents = Arr(<<>>)
  /\ state.sectionPerformance = Arr(<<>>)
  /\ ~state.isLoading
ShowsFixture ==
  /\ state.analytics = dummyAnalytics
  /\ state.proctoringEvents = dummyProctoringEvents
  /\ state.sectionPerformance = dummySectionPerformance
  /\ ~state.isLoading
  /\ ~state.hasError
\* The state is the one the load cycle g left when it returned.
ProducedBy(g) ==
  CASE cycles[g].outcome = "nojob" -> state.analytics = Null /\ ~state.isLoading
    [] cycles[g].outcome = "mock" -> ShowsFixture /\ state.analyticsError = Null
    [] cycles[g].outcome = "ok" ->
         /\ state.analytics = combined(dataOf(server[cycles[g].job]))
         /\ state.proctoringEvents = extractProctoringEvents(dataOf(server[cycles[g].job]))
         /\ state.sectionPerformance = extractSectionPerformance(dataOf(server[cycles[g].job]))
         /\ ~state.isLoading
         /\ ~state.hasError
         /\ state.analyticsError = Null
    [] cycles[g].outcome = "error" ->
         /\ Errored
         /\ state.analyticsError # Null
         /\ state.analyticsError.gen = g
    [] OTHER -> FALSE

\* C1: once every load has returned, whatever the order in which the
\* responses of a superseded load and of the load (for a present identifier)
\* that superseded it came back, the state is the one the latest load
\* produced.
C1_LatestLoadWins ==
  (Len(cycles) >= 2 /\ AllDone /\ cycles[Len(cycles)].job # NoJob) =>
    ProducedBy(Len(cycles))

\* C2: a load cycle one of whose nine requests rejects, at whatever
\* position, leaves hasError, a null record, empty lists and isLoading
\* false; a cycle stores a record only once all nine have fulfilled, and
\* every record stored is the full merge of one job's nine responses.
C2_AnyRejectionFailsTheLoad ==
  /\ \A g \in Gens :
       /\ (cycles[g].outcome = "error" /\ writer = g) =>
            (Errored /\ state.analyticsError # Null /\ state.analyticsError.gen = g)
       /\ cycles[g].outcome = "ok" => cycles[g].remaining = 0
  /\ state.analytics \notin {Null, dummyAnalytics} =>
       \E g \in Gens :
         /\ cycles[g].outcome = "ok"
         /\ state.analytics = combined(dataOf(server[cycles[g].job]))
\* A cycle whose ninth request rejected after the other eight fulfilled,
\* with a record of an earlier load on display until then.
C2_Witness ==
  \E g \in Gens :
    /\ g > 1
    /\ cycles[g - 1].outcome = "ok"
    /\ cycles[g].outcome = "error"
    /\ cycles[g].remaining = 0
    /\ writer = g
    /\ state.analyticsError = ErrorOf(g, NumEndpoints)

\* C3: a load without a job identifier leaves analytics null and isLoading
\* false and issues no request: neither GET /api/mock-flag nor a report
\* request (every request on the network was issued by a load that had an
\* identifier).
C3_NoJobNoRequests ==
  /\ \A g \in Gens :
       cycles[g].job = NoJob =>
         /\ cycles[g].outcome = "nojob"
         /\ cycles[g].issued = [flag |-> 0, report |-> 0]
         /\ writer = g => (state.analytics = Null /\ ~state.isLoading)
  /\ net.flag = SumIssued("flag", Len(cycles))
  /\ net.report = SumIssued("report", Len(cycles))
\* The identifier was withdrawn after a load had stored a record.
C3_Witness ==
  /\ Len(cycles) = 2
  /\ cycles[1].outcome = "ok"
  /\ cycles[2].job = NoJob
  /\ writer = 2
  /\ net.report = NumEndpoints

\* The nine responses the current job's requests fulfil with.
Responses == dataOf(server[jobId])
\* The record on display is the one the latest load merged.
MergeStored ==
  /\ cycles # <<>>
  /\ cycles[Len(cycles)].outcome = "ok"
  /\ writer = Len(cycles)
\* The elements of the data array of the response of endpoint e.
Rows(e) ==
  LET resp == Responses[e] IN
  IF resp.t = "obj" /\ "data" \in DOMAIN resp.f /\ resp.f["data"].t = "arr"
  THEN resp.f["data"].a
  ELSE <<>>
\* What the i-th row of endpoint e holds in field f; Undef when it holds
\* nothing there.
Carried(e, i, f) ==
  LET rows == Rows(e) IN
  IF i <= Len(rows) /\ rows[i].t = "obj" /\ f \in DOMAIN rows[i].f
  THEN rows[i].f[f]
  ELSE Undef
HasValue(v) == v # Undef /\ v # Null
RecordFields == ScalarFields \cup tlFields \cup {"score_distribution"}

\* C4: every record a successful load stores has all the fields of
\* JobAnalyticsData and none of them is undefined, whatever the shape of the
\* nine responses; when no response has a row the record is the record of
\* defaults.
C4_RecordIsTotal ==
  MergeStored =>
    /\ DOMAIN state.analytics = RecordFields
    /\ \A f \in RecordFields : state.analytics[f] # Undef
    /\ (\A e \in 1..NumEndpoints : Rows(e) = <<>>) => state.analytics = emptyAnalytics
    /\ state.proctoringEvents # Undef
    /\ state.sectionPerformance # Undef
\* A response without a data key and one whose first row is null.
C4_Witness ==
  /\ MergeStored
  /\ Responses[EpIM] = EmptyObj
  /\ Rows(EpAC) = <<Null>>
  /\ state.analytics = emptyAnalytics

\* C5: each scalar field is the value its endpoint's first row holds when
\* that value is present and not null (0 included), and its default when the
\* value is missing or null, whatever the other fields of the row hold.
C5_ScalarFieldDefaulting ==
  MergeStored =>
    \A f \in ScalarFields :
      LET v == Carried(OwnEndpoint(f), 1, f) IN
      /\ HasValue(v) => state.analytics[f] = v
      /\ ~HasValue(v) => state.analytics[f] = emptyAnalytics[f]
\* A row that holds 0 in a field whose default is null, next to fields
\* that are missing.
C5_Witness ==
  /\ MergeStored
  /\ Carried(EpIM, 1, "avg_interview_rating") = Num(0)
  /\ Carried(EpIM, 1, "total_interviews") = Undef
  /\ state.analytics.avg_interview_rating = Num(0)
  /\ state.analytics.total_interviews = Num(0)

\* The values any row of any response holds in field f, text counted with
\* the value it decodes to (the elements of the three list responses are
\* list items, not rows of record fields).
ValuesCarried(f) ==
  LET raw == {Carried(e, i, f) : e \in RowEndpoints, i \in 1..2} IN
  {v \in raw : HasValue(v)}
    \cup {JSONParse(v.s).v : v \in {x \in raw : x.t = "str" /\ JSONParse(x.s).ok}}
FromOwnSource(f) ==
  IF f = "score_distribution"
  THEN LET resp == Responses[EpSD] IN
       IF resp.t = "obj" /\ "data" \in DOMAIN resp.f /\ HasValue(resp.f["data"])
       THEN resp.f["data"]
       ELSE emptyAnalytics[f]
  ELSE LET v == Carried(OwnEndpoint(f), 1, f) IN
       IF f \in ScalarFields
       THEN IF HasValue(v) THEN v ELSE emptyAnalytics[f]
       ELSE IF v.t = "arr" THEN v
       ELSE IF v.t = "str" /\ JSONParse(v.s).ok /\ HasValue(JSONParse(v.s).v)
       THEN JSONParse(v.s).v
       ELSE emptyAnalytics[f]
C7_TimelineDecoded ==
  MergeStored =>
    \A f \in tlFields :
      LET raw == Carried(EpTL, 1, f) IN
      /\ (raw.t = "str" /\ JSONParse(raw.s).ok) => state.analytics[f] = JSONParse(raw.s).v
      /\ (raw.t = "str" /\ ~JSONParse(raw.s).ok) =>
           (state.analytics[f] = Arr(<<>>) /\ ~state.hasError /\ ~state.isLoading)
      /\ raw.t = "arr" => state.analytics[f] = raw
\* C7, amended: timeline text that decodes is stored as the decoded value,
\* but as the empty sequence when it decodes to null; text that does not
\* decode is stored as the empty sequence with the load Ready; an array is
\* stored unchanged.
C7_TimelineDecodedNullEmpty ==
  MergeStored =>
    \A f \in tlFields :
      LET raw == Carried(EpTL, 1, f) IN
      /\ (raw.t = "str" /\ JSONParse(raw.s).ok) =>
           state.analytics[f] =
             (IF JSONParse(raw.s).v = Null THEN Arr(<<>>) ELSE JSONParse(raw.s).v)
      /\ (raw.t = "str" /\ ~JSONParse(raw.s).ok) =>
           (state.analytics[f] = Arr(<<>>) /\ ~state.hasError /\ ~state.isLoading)
      /\ raw.t = "arr" => state.analytics[f] = raw
\* One timeline field is the text "null", the other text that decodes to
\* an array.
C7_Witness ==
  /\ MergeStored
  /\ Carried(EpTL, 1, "interview_date_distribution") = Str(<<"null">>)
  /\ Carried(EpTL, 1, "interview_time_distribution") = Str(<<"[", "]">>)
  /\ state.analytics.interview_date_distribution = Arr(<<>>)
  /\ state.analytics.interview_time_distribution = Arr(<<>>)
  /\ ~state.hasError

\* C8: a value only a later row of an aggregate endpoint holds does not
\* reach the record, and the data arrays of score-distribution,
\* proctoring-events and section-performance are stored whole and in order.
C8_FirstRowWholeLists ==
  MergeStored =>
    /\ \A e \in RowEndpoints :
         \A f \in OwnFields(e) \cup (IF e = EpTL THEN tlFields ELSE {}) :
           \A i \in 2..Len(Rows(e)) :
             (HasValue(Carried(e, i, f)) /\ Carried(e, i, f) # Carried(e, 1, f)) =>
               state.analytics[f] # Carried(e, i, f)
    /\ Rows(EpSD) # <<>> => state.analytics.score_distribution = Arr(Rows(EpSD))
    /\ Rows(EpPE) # <<>> => state.proctoringEvents = Arr(Rows(EpPE))
    /\ Rows(EpSP) # <<>> => state.sectionPerformance = Arr(Rows(EpSP))
\* Every response has two rows.
C8_Witness ==
  /\ MergeStored
  /\ \A e \in 1..NumEndpoints : Len(Rows(e)) = 2
  /\ state.analytics.total_interviews = Carried(EpIM, 1, "total_interviews")
  /\ state.analytics.total_interviews # Carried(EpIM, 2, "total_interviews")
  /\ Len(state.proctoringEvents.a) = 2

\* C9: a load with an identifier for which resolveMockFlag gives true issues
\* no report request and leaves the fixture, isLoading false and hasError
\* false, whatever the identifier and however often it is repeated.
C9_MockLoadServesFixture ==
  \A g \in Gens :
    (cycles[g].job # NoJob /\ cycles[g].mock = "true") =>
      /\ cycles[g].outcome = "mock"
      /\ cycles[g].issued.report = 0
      /\ writer = g => (ShowsFixture /\ state.analyticsError = Null)
\* Two mock loads, for two different identifiers.
C9_Witness ==
  /\ Len(cycles) = 2
  /\ cycles[1].mock = "true"
  /\ cycles[2].mock = "true"
  /\ cycles[1].job = "a"
  /\ cycles[2].job = "b"
  /\ writer = 2
  /\ net.report = 0

\* C10: once mockFlagCached holds a boolean its value never changes.
C10_CachedFlagNeverChanges ==
  [][mockFlagCached # Null => mockFlagCached' = mockFlagCached]_vars


\* C11: however many loads call resolveMockFlag, together or one after the
\* other, at most one GET /api/mock-flag is ever issued; only the first
\* caller issues it, the callers arriving while it is pending wait for it,
\* and every caller is given the one value that ends up cached.
C11_OneMockFlagRequest ==
  /\ net.flag <= 1
  /\ \A g \in Gens :
       /\ cycles[g].issued.flag = 1 =>
            \A h \in Gens : (h # g) => cycles[h].issued.flag = 0
       /\ cycles[g].pc = "flag" => (mockFlagPromise /\ net.flag = 1)
       /\ cycles[g].mock # "pending" => mockFlagCached = Bool(cycles[g].mock = "true")
\* Two loads wait for the same pending GET /api/mock-flag.
C11_Witness ==
  /\ Len(cycles) = 2
  /\ cycles[1].pc = "flag"
  /\ cycles[2].pc = "flag"
  /\ net.flag = 1


\* What is read as true, of the values a source may hold.
ReadAsTrue == {Bool(TRUE), Str(<<"true">>), Str(<<"TRUE">>), Str(<<"1">>)}
\* The first of the values srcs for which isSet holds; Undef when there is
\* none.
FirstSet(srcs, isSet(_)) ==
  IF \E i \in 1..Len(srcs) : isSet(srcs[i])
  THEN srcs[CHOOSE i \in 1..Len(srcs) : isSet(srcs[i]) /\ \A j \in 1..(i - 1) : ~isSet(srcs[j])]
  ELSE Undef
\* The three sources in priority order, as immediateMockFlag sees them.
SourcesNow == <<importMetaEnv, processEnv, IF hasWindow THEN windowMockApi ELSE Undef>>
NotNullish(v) == v # Undef /\ v # Null
NotUndefined(v) == v # Undef

\* C12: the cached flag is the reading of the first source that is set, in
\* the order import.meta.env.MOCK_API, process.env.MOCK_API, window.MOCK_API,
\* whatever the later sources hold; GET /api/mock-flag is issued only when
\* none of the three is set (and a window exists); readMockApiEnv follows
\* the same order and never asks the server.
C12_FirstSetSourceDecides ==
  /\ (mockFlagCached # Null /\ FirstSet(SourcesNow, NotNullish) # Undef) =>
       mockFlagCached = Bool(FirstSet(SourcesNow, NotNullish) \in ReadAsTrue)
  /\ net.flag >= 1 => (hasWindow /\ ~NotNullish(importMetaEnv) /\ ~NotNullish(processEnv))
  /\ mockFlagPromise => FirstSet(SourcesNow, NotNullish) = Undef
  /\ (cycles # <<>> /\ hasWindow /\ mockFlagCached = Null) => mockFlagPromise
  /\ lastCall.fn = "readMockApiEnv" =>
       LET first == FirstSet(lastCall.args, NotUndefined) IN
       lastCall.ret = Bool(first = Undef \/ first \in ReadAsTrue \ {Str(<<"1">>)})
\* The build-time variable says "true", the process environment "false":
\* the flag is true and the server was not asked.
C12_Witness ==
  /\ importMetaEnv = Str(<<"true">>)
  /\ processEnv = Str(<<"false">>)
  /\ cycles # <<>>
  /\ mockFlagCached = Bool(TRUE)
  /\ net.flag = 0
  /\ lastCall.fn = "readMockApiEnv"
  /\ lastCall.ret = Bool(TRUE)


\* The texts the specification calls truthy.
TruthyTexts == {Str(<<"true">>), Str(<<"1">>)}
\* C13: every reader of the mock toggle reads the texts "true" and "1" as
\* true: immediateMockFlag (through readBool) into the cached flag,
\* readMockApiEnv, and the route GET /api/mock-flag.
C13_TrueAndOneReadAsTrue ==
  /\ (mockFlagCached # Null /\ FirstSet(SourcesNow, NotNullish) \in TruthyTexts) =>
       mockFlagCached = Bool(TRUE)
  /\ (lastCall.fn = "GET" /\ lastCall.args[1] \in TruthyTexts) =>
       Get(lastCall.ret, "mock") = Bool(TRUE)
  /\ (lastCall.fn = "readMockApiEnv" /\ FirstSet(lastCall.args, NotUndefined) \in TruthyTexts) =>
       lastCall.ret = Bool(TRUE)


\* C14: in a process whose mock mode is on, downloadBasicReport issues no
\* GET basic-report, at whatever moment it is called.
C14_NoDownloadInMockMode ==
  mockFlagCached = Bool(TRUE) => (net.download = 0 /\ dlPending = 0)


\* C15: when the basic-report request settles, fulfilled or rejected,
\* downloadBasicReport resolves to its caller and no field of the
\* aggregator state changes.
C15_DownloadIsIsolated ==
  [][dlPending' < dlPending =>
       (state' = state /\ lastCall'.ret = Str(<<"resolved">>))]_vars


\* Some load returns in this step: its result lands.
SomeResultLands ==
  \E g \in DOMAIN cycles' :
    /\ cycles'[g].pc = "done"
    /\ g \in Gens => cycles[g].pc # "done"

\* C16: a load started with an identifier whose result has not landed yet
\* leaves the state Loading (isLoading, no hasError, analyticsError null)
\* with analytics, proctoringEvents and sectionPerformance as they were,
\* and while no result lands nothing else changes the state.
C16_LoadingKeepsData ==
  [][/\ (Len(cycles') > Len(cycles) /\ cycles'[Len(cycles')].pc # "done") =>
         /\ state'.isLoading
         /\ ~state'.hasError
         /\ state'.analyticsError = Null
         /\ state'.analytics = state.analytics
         /\ state'.proctoringEvents = state.proctoringEvents
         /\ state'.sectionPerformance = state.sectionPerformance
     /\ (Len(cycles') = Len(cycles) /\ ~SomeResultLands) => state' = state]_vars
\* A second load is in flight over the data the first one stored.
C16_Witness ==
  /\ Len(cycles) = 2
  /\ cycles[1].outcome = "ok"
  /\ cycles[2].pc = "fetch"
  /\ cycles[2].remaining < NumEndpoints
  /\ writer = 2
  /\ state.isLoading
  /\ state.analytics # Null
  /\ state.proctoringEvents # Arr(<<>>)


\* The errors the report requests of cycle g can reject with.
ErrorsOf(g) == {ErrorOf(g, i) : i \in 1..NumEndpoints}

\* C17: a cycle returns through its catch block at the first rejection of
\* one of its nine requests, however many are still pending, and the state
\* is then Errored with that rejection's error; requests of the cycle that
\* settle afterwards change no field of the state.
C17_FirstRejectionAborts ==
  [][\A g \in Gens :
       /\ (cycles[g].pc = "fetch" /\ cycles'[g].remaining < cycles[g].remaining) =>
            \/ /\ cycles'[g].outcome = "error"
               /\ cycles'[g].pc = "done"
               /\ writer' = g
               /\ state'.hasError /\ ~state'.isLoading /\ state'.analytics = Null
               /\ state'.analyticsError \in ErrorsOf(g)
            \/ /\ cycles'[g].outcome = "ok"
               /\ cycles'[g].remaining = 0
            \/ /\ cycles'[g].pc = "fetch"
               /\ state' = state
       /\ (cycles[g].outcome = "error" /\ cycles'[g].remaining < cycles[g].remaining) =>
            /\ state' = state
            /\ cycles'[g].outcome = "error"]_vars
\* A cycle has returned with an error while some of its requests were
\* pending, two of them have settled since, and its error is still shown.
C17_Witness ==
  \E g \in Gens :
    /\ cycles[g].outcome = "error"
    /\ cycles[g].remaining > 0
    /\ cycles[g].remaining < NumEndpoints - 2
    /\ writer = g
    /\ Errored
    /\ state.analyticsError \in ErrorsOf(g)


\* The distribution the last statistic was computed over.
CalledOn == lastCall.args[1]
\* The sum of candidate_count over the buckets 1..k of sd.
RECURSIVE CountUpTo(_, _)
CountUpTo(sd, k) == IF k = 0 THEN 0 ELSE sd[k].candidate_count + CountUpTo(sd, k - 1)
\* The first bucket of sd whose candidate_count no bucket exceeds.
FirstMaximal(sd) ==
  CHOOSE k \in DOMAIN sd :
    /\ \A m \in DOMAIN sd : sd[m].candidate_count <= sd[k].candidate_count
    /\ \A m \in 1..(k - 1) : sd[m].candidate_count < sd[k].candidate_count

\* C18: calculateMode returns the avg_rating_in_bucket of the first bucket
\* with the maximum candidate_count, and 2.5 for the empty distribution;
\* on the distribution 3 at 1, 8 at 2, 1 at 3 it returns 2.
C18_ModeIsFirstMaximalBucket ==
  lastCall.fn = "calculateMode" =>
    /\ CalledOn = <<>> => lastCall.ret = Frac(250)
    /\ CalledOn # <<>> =>
         lastCall.ret = Frac(CalledOn[FirstMaximal(CalledOn)].avg_rating_in_bucket)
    /\ CalledOn = ExampleDistribution => lastCall.ret = Num(2)

\* The first bucket of sd at which the running count reaches half the total.
FirstAtMidpoint(sd) ==
  CHOOSE k \in DOMAIN sd :
    /\ 2 * CountUpTo(sd, k) >= CountUpTo(sd, Len(sd))
    /\ \A m \in 1..(k - 1) : 2 * CountUpTo(sd, m) < CountUpTo(sd, Len(sd))

\* C19: calculateMedian returns the avg_rating_in_bucket of the first
\* bucket, in the given order, at which the running sum of candidate_count
\* is at least half the total, and 2.5 for the empty distribution; on the
\* distribution 3 at 1, 8 at 2, 1 at 3 the total is 12 and the result 2.
C19_MedianIsFirstBucketAtMidpoint ==
  lastCall.fn = "calculateMedian" =>
    /\ CalledOn = <<>> => lastCall.ret = Frac(250)
    /\ CalledOn # <<>> =>
         lastCall.ret = Frac(CalledOn[FirstAtMidpoint(CalledOn)].avg_rating_in_bucket)
    /\ CalledOn = ExampleDistribution =>
         /\ CountUpTo(CalledOn, Len(CalledOn)) = 12
         /\ lastCall.ret = Num(2)
\* The walk has passed a bucket that holds less than half the candidates
\* and stopped at one where the running count is exactly half the total.
C19_Witness ==
  /\ lastCall.fn = "calculateMedian"
  /\ Len(CalledOn) = 3
  /\ FirstAtMidpoint(CalledOn) = 2
  /\ 2 * CountUpTo(CalledOn, 2) = CountUpTo(CalledOn, 3)
  /\ CalledOn[2].avg_rating_in_bucket # CalledOn[3].avg_rating_in_bucket
  /\ lastCall.ret = Frac(CalledOn[2].avg_rating_in_bucket)

\* The number of candidates in the buckets 1..k of sd with a rating in R.
RECURSIVE CountRated(_, _, _)
CountRated(sd, k, R) ==
  IF k = 0 THEN 0
  ELSE (IF sd[k].avg_rating_in_bucket \in R THEN sd[k].candidate_count ELSE 0)
         + CountRated(sd, k - 1, R)
\* The rating at position p of the ratings of sd in ascending order, each
\* repeated candidate_count times.
RatingAt(sd, p) ==
  LET rated == {sd[k].avg_rating_in_bucket : k \in DOMAIN sd}
  IN CHOOSE r \in rated :
       /\ CountRated(sd, Len(sd), {x \in rated : x < r}) < p
       /\ p <= CountRated(sd, Len(sd), {x \in rated : x <= r})
TrueMedian(sd) ==
  LET n == CountUpTo(sd, Len(sd))
  IN IF n % 2 = 1 THEN RatingAt(sd, (n + 1) \div 2)
     ELSE (RatingAt(sd, n \div 2) + RatingAt(sd, n \div 2 + 1)) \div 2

\* C20: calculateScoreSummary returns as total the sum of candidate_count
\* over all buckets and, when there is a candidate at all, as median the
\* true median of the ratings repeated candidate_count times and sorted
\* ascending (the middle one, or the average of the two middle ones); on
\* the distribution 3 at 1, 8 at 2, 1 at 3 the median is 2.
C20_SummaryIsTrueMedian ==
  lastCall.fn = "calculateScoreSummary" =>
    /\ lastCall.ret.total = CountUpTo(CalledOn, Len(CalledOn))
    /\ lastCall.ret.total > 0 => lastCall.ret.median = TrueMedian(CalledOn)
    /\ CalledOn = ExampleDistribution => lastCall.ret.median = 200
\* An even number of candidates in buckets given out of ascending order,
\* whose two middle ratings differ.
C20_Witness ==
  /\ lastCall.fn = "calculateScoreSummary"
  /\ Len(CalledOn) = 3
  /\ CalledOn[1].avg_rating_in_bucket > CalledOn[2].avg_rating_in_bucket
  /\ lastCall.ret.total = 4
  /\ RatingAt(CalledOn, 2) # RatingAt(CalledOn, 3)
  /\ lastCall.ret.median = (RatingAt(CalledOn, 2) + RatingAt(CalledOn, 3)) \div 2


\* sd is a histogram: ratings strictly ascending, every bucket populated.
IsHistogram(sd) ==
  /\ sd # <<>>
  /\ \A k \in DOMAIN sd : sd[k].candidate_count > 0
  /\ \A k \in 1..(Len(sd) - 1) : sd[k].avg_rating_in_bucket < sd[k + 1].avg_rating_in_bucket
\* The buckets 1..k of sd hold exactly half of its candidates.
TiedAt(sd, k) == 2 * CountUpTo(sd, k) = CountUpTo(sd, Len(sd))

\* C21: calculateMedian and calculateScoreSummary are not equivalent. On a
\* histogram split in two equal halves at a bucket boundary the bucket walk
\* returns the rating of the bucket below the boundary and the summary the
\* average of the ratings on both sides, which differ; on every other
\* histogram the two agree.
C21_MediansDifferOnTies ==
  (lastCall.fn = "renderStatistics" /\ IsHistogram(CalledOn)) =>
    /\ \A k \in DOMAIN CalledOn :
         TiedAt(CalledOn, k) =>
           /\ lastCall.ret.table = CalledOn[k].avg_rating_in_bucket
           /\ 2 * lastCall.ret.summary =
                CalledOn[k].avg_rating_in_bucket + CalledOn[k + 1].avg_rating_in_bucket
           /\ lastCall.ret.table # lastCall.ret.summary
    /\ (\A k \in DOMAIN CalledOn : ~TiedAt(CalledOn, k)) =>
         lastCall.ret.table = lastCall.ret.summary
\* Both medians computed over a tied histogram, with different results.
C21_Witness ==
  /\ lastCall.fn = "renderStatistics"
  /\ IsHistogram(CalledOn)
  /\ \E k \in DOMAIN CalledOn : TiedAt(CalledOn, k)
  /\ lastCall.ret.table # lastCall.ret.summary


\* The request the last fetchWithCsrf call was made with, and its response.
FetchMock == lastCall.args[1]
FetchAsBlob == lastCall.args[2]
FetchResp == lastCall.args[3]
\* What the fetchWithCsrf contract gives for a response, whatever the mode.
FetchContract ==
  /\ ~IsOk(FetchResp) =>
       /\ lastCall.ret.kind = "throw"
       /\ lastCall.ret.message =
            IF textOrEmpty(FetchResp) # <<>> THEN textOrEmpty(FetchResp)
            ELSE <<"Request failed with status ", FetchResp.status>>
  /\ (IsOk(FetchResp) /\ ~includesJson(FetchResp.contentType) /\ ~FetchAsBlob) =>
       lastCall.ret.kind = "throw"
  /\ lastCall.ret.kind = "return" =>
       /\ IsOk(FetchResp)
       /\ lastCall.ret.what = (IF FetchAsBlob THEN "blob" ELSE "json")

\* C22 as stated: fetchWithCsrf raises on every non-2xx response (message:
\* the body text, or "Request failed with status N"), raises on every 2xx
\* response that is not JSON unless a blob was asked for, and returns a
\* value, parsed JSON or blob, only for a 2xx response.
C22_RaisesOnEveryBadResponse ==
  (lastCall.fn = "fetchWithCsrf" /\ FetchResp.t = "response") => FetchContract
\* C22: the same holds whenever getIsMockApi() is false at the call; when
\* it is true, fetchWithCsrf returns the Response of fetch as it is,
\* whatever its status and content type.
C22_RaisesOutsideMockMode ==
  (lastCall.fn = "fetchWithCsrf" /\ FetchResp.t = "response") =>
    /\ ~FetchMock => FetchContract
    /\ FetchMock => lastCall.ret = Return("response", FetchResp)
\* A blob was asked for outside mock mode and the response is a 404 with a
\* body: the status check wins and the body text is thrown.
C22_Witness ==
  /\ lastCall.fn = "fetchWithCsrf"
  /\ FetchResp.t = "response"
  /\ ~FetchMock
  /\ FetchAsBlob
  /\ FetchResp.status = 404
  /\ FetchResp.readable
  /\ FetchResp.body # <<>>
  /\ lastCall.ret = Throw(FetchResp.body)


\* C23: whenever the aggregator is Errored and neither it nor useJob is
\* loading, JobAnalyticsPage renders the dashboard over dummyAnalytics and
\* dummySectionPerformance.
C23_ErroredShowsFixtureDashboard ==
  (state.hasError /\ state.analytics = Null /\ ~state.isLoading) =>
    /\ JobAnalyticsPage(state, FALSE) =
         [view |-> "dashboard", data |-> dummyAnalytics, sections |-> dummySectionPerformance]
    /\ JobAnalyticsPage(state, TRUE).view = "loader"
\* A load has failed and the page shows the fixture.
C23_Witness ==
  /\ cycles # <<>>
  /\ cycles[Len(cycles)].outcome = "error"
  /\ writer = Len(cycles)
  /\ Errored
  /\ state.analyticsError # Null
  /\ JobAnalyticsPage(state, FALSE).data = dummyAnalytics


\* Load cycle g, started with an identifier, has not returned yet.
InFlight(g) == g \in Gens /\ cycles[g].pc # "done"
\* Load cycle g has returned and the aggregator is out of Loading, Ready
\* with a record or Errored.
Landed(g) ==
  /\ g \in Gens
  /\ cycles[g].pc = "done"
  /\ ~state.isLoading
  /\ state.analytics # Null \/ state.hasError

\* C24: when every request issued eventually settles, every load cycle
\* started with an identifier eventually returns and leaves the aggregator
\* out of Loading, with a record or with hasError; and a load started with
\* an identifier from any state, Ready and Errored included, that does not
\* return at once puts the aggregator in Loading.
C24_EveryLoadLeavesLoading ==
  /\ \A g \in 1..MaxLoads : InFlight(g) ~> Landed(g)
  /\ [][(Len(cycles') > Len(cycles) /\ cycles'[Len(cycles')].pc # "done")
          => state'.isLoading]_vars
\* Loading re-entered from Errored: the first load failed, a second one is
\* in flight.
C24_Witness ==
  /\ Len(cycles) = 2
  /\ cycles[1].outcome = "error"
  /\ cycles[1].remaining = 0
  /\ cycles[2].pc = "fetch"
  /\ writer = 2
  /\ state.isLoading
  /\ ~state.hasError


\* C25: resolveMockFlag never rejects. When the mock-flag request fails and
\* nothing else does, the flag resolves to false: false is cached, the
\* pending-resolution reference is cleared, every load that awaited it goes
\* on to the real branch, and the aggregator never has an error.
C25_FlagFailureResolvesFalse ==
  /\ ~state.hasError
  /\ state.analyticsError = Null
  /\ \A g \in Gens : cycles[g].outcome # "error"
  /\ (net.flag >= 1 /\ ~mockFlagPromise) =>
       /\ mockFlagCached = Bool(FALSE)
       /\ \A g \in Gens :
            cycles[g].job # NoJob =>
              /\ cycles[g].mock = "false"
              /\ cycles[g].pc \in {"fetch", "done"}
              /\ cycles[g].issued.report = NumEndpoints
\* The mock-flag request has failed, the load that awaited it has fetched
\* the nine reports and stored their record.
C25_Witness ==
  /\ net.flag = 1
  /\ ~mockFlagPromise
  /\ mockFlagCached = Bool(FALSE)
  /\ Len(cycles) = 1
  /\ cycles[1].issued.flag = 1
  /\ cycles[1].outcome = "ok"
  /\ state.analytics # Null
  /\ ~state.isLoading


\* C26: in every reachable state hasError is true exactly when
\* analyticsError is non-null, and a state with hasError carries no data:
\* analytics is null and both lists are empty.
C26_ErrorFlagMatchesErrorAndNoData ==
  /\ state.hasError <=> state.analyticsError # Null
  /\ state.hasError =>
       /\ state.analytics = Null
       /\ state.proctoringEvents = Arr(<<>>)
       /\ state.sectionPerformance = Arr(<<>>)
\* An error is on show after overlapping loads: the second load returned
\* before the first one failed.
C26_Witness ==
  /\ Len(cycles) = 2
  /\ cycles[2].outcome \in {"ok", "nojob"}
  /\ cycles[1].outcome = "error"
  /\ writer = 1
  /\ state.hasError
  /\ state.analyticsError # Null


\* C27: isLoading is true whenever a load cycle started with an identifier
\* has not returned yet.
C27_LoadingWhileAnyInFlight ==
  (\E g \in Gens : cycles[g].pc # "done") => state.isLoading


\* C28: in every record stored by a real-mode load the two timeline
\* distributions are arrays, whatever the interview-timeline endpoint
\* returned for them.
C28_TimelineFieldsAreArrays ==
  MergeStored => \A f \in tlFields : state.analytics[f].t = "arr"


\* C30: after a load whose nine requests all succeeded, the analytics and
\* the section list JobAnalyticsPage renders are those merged from that
\* load's responses, an empty section list included, and never the fixture
\* in their place.
C30_RendersTheLoadedData ==
  MergeStored =>
    LET page == JobAnalyticsPage(state, FALSE) IN
    /\ page.view = "dashboard"
    /\ page.data = combined(Responses)
    /\ page.sections = extractSectionPerformance(Responses)


\* C29: useJob's loading flag eventually becomes false and stays false once the
\* props stop changing, every issued request settling; a jobId that goes
\* absent while a job request is in flight does not leave loading true.
C29_JobLoadingEventuallyFalse == <>[](~jobHook.loading)

\* The state the flag is stuck in: no jobId, no override, nothing pending,
\* the only runs cancelled and finished, and loading still true, so that the
\* page (api.ts 238) keeps rendering the loader.
JobLoadingNeverStuck ==
  ~(/\ jobHook.loading
    /\ hasWindow
    /\ jobId = NoJob
    /\ override = Null
    /\ ~mockFlagPromise
    /\ \A k \in 1..Len(jobRuns) : jobRuns[k].pc = "done"
    /\ propChanges = MaxPropChanges
    /\ JobAnalyticsPage(state, jobHook.loading).view = "loader")

====
